---------------------------- MODULE Spec2Model ----------------------------
(***************************************************************************)
(* RunwayGuard: the Runway Risk Index (RRI) engine and its Monte Carlo     *)
(* driver (src/functions/core_calculations.py, src/functions/core/         *)
(* probabilistic_rri.py, src/functions/time_factors.py).                   *)
(*                                                                         *)
(* Number representation.  Python floats are modelled by exact fixed-point *)
(* integers:                                                               *)
(*   - scores            : two-hundredths of a point (Pts(1) = 200), the   *)
(*                         common denominator of x/15*30, x/10*20,         *)
(*                         x/20*10 and x/2000*30 on integer x;             *)
(*   - wind_speed / gust : tenths of a knot;                               *)
(*   - temperatures      : tenths of a degree C;                           *)
(*   - altimeter         : hundredths of an inch of mercury;               *)
(*   - visibility        : hundredths of a statute mile;                   *)
(*   - terrain_factor    : tenths;                                         *)
(*   - head/cross components, da_diff, ceiling, elevations: integers, as   *)
(*     in the code.                                                        *)
(* A Python None / absent dict key is the empty sequence << >>, a present  *)
(* value v is << v >>.  Weather codes and NOTAM text are strings and the   *)
(* Python  `sub in text`  test is Contains.                                *)
(***************************************************************************)
EXTENDS Integers, Sequences, FiniteSets, TLC

(***************************************************************************)
(* Generic helpers                                                         *)
(***************************************************************************)
None == << >>

Some(v) == << v >>

IsNone(o) == o = << >>

Val(o) == o[1]

Min(a, b) == IF a <= b THEN a ELSE b

Max(a, b) == IF a >= b THEN a ELSE b

Abs(a) == IF a >= 0 THEN a ELSE -a

\* n points in score units (two-hundredths of a point)
Pts(n) == 200 * n

\* Python `sub in s` on strings
Contains(sub, s) ==
    \E i \in 1..(Len(s) - Len(sub) + 1) : SubSeq(s, i, i + Len(sub) - 1) = sub

\* Python any(sub in condition for condition in weather)
AnyContains(sub, weather) ==
    \E i \in 1..Len(weather) : Contains(sub, weather[i])

\* Python round() of the non-negative rational num/den: round half to even
RoundHalfEven(num, den) ==
    LET q == num \div den
        r == num % den
    IN  IF 2 * r < den THEN q
        ELSE IF 2 * r > den THEN q + 1
        ELSE IF q % 2 = 0 THEN q ELSE q + 1

\* Python int() of the rational num/den (den > 0): truncation toward zero
Trunc(num, den) ==
    IF num >= 0 THEN num \div den ELSE -((-num) \div den)

\* contributors[key] = {"score": v, ...}
Put(contributors, key, v) ==
    [k \in DOMAIN contributors \cup {key} |->
        IF k = key THEN v ELSE contributors[k]]

\* contributors.get(key, {}).get("score", 0)
ScoreOf(contributors, key) ==
    IF key \in DOMAIN contributors THEN contributors[key] ELSE 0

RECURSIVE SumScores(_, _)
SumScores(contributors, keys) ==
    IF keys = {} THEN 0
    ELSE LET k == CHOOSE x \in keys : TRUE
         IN  contributors[k] + SumScores(contributors, keys \ {k})

NoContributors == [k \in {} |-> 0]

(***************************************************************************)
(* 4.1 Wind geometry                                                       *)
(*                                                                         *)
(* math.cos / math.sin of math.radians(a) for a = 0, 5, ..., 355, in       *)
(* millionths, magnitude only.  Entries for cos 60, sin 30 and their       *)
(* images are 500001 / 499999: the IEEE doubles are 0.5000000000000001     *)
(* and 0.49999999999999994, which decides round() of x.5 products (wind    *)
(* 120 at 15 kt on runway 09 has crosswind 7, not 8).  CosNegative holds   *)
(* the angles whose double cosine is below zero; it includes 270           *)
(* (cos = -1.8e-16) and excludes 90 (cos = 6.1e-17).                       *)
(***************************************************************************)
CosMicro ==
    << 1000000, 996195, 984808, 965926, 939693, 906308, 866025, 819152,
       766044, 707107, 642788, 573576, 500001, 422618, 342020, 258819,
       173648, 87156, 0, 87156, 173648, 258819, 342020, 422618,
       499999, 573576, 642788, 707107, 766044, 819152, 866025, 906308,
       939693, 965926, 984808, 996195, 1000000, 996195, 984808, 965926,
       939693, 906308, 866025, 819152, 766044, 707107, 642788, 573576,
       500001, 422618, 342020, 258819, 173648, 87156, 0, 87156,
       173648, 258819, 342020, 422618, 500001, 573576, 642788, 707107,
       766044, 819152, 866025, 906308, 939693, 965926, 984808, 996195 >>

SinMicro ==
    << 0, 87156, 173648, 258819, 342020, 422618, 499999, 573576,
       642788, 707107, 766044, 819152, 866025, 906308, 939693, 965926,
       984808, 996195, 1000000, 996195, 984808, 965926, 939693, 906308,
       866025, 819152, 766044, 707107, 642788, 573576, 499999, 422618,
       342020, 258819, 173648, 87156, 0, 87156, 173648, 258819,
       342020, 422618, 500001, 573576, 642788, 707107, 766044, 819152,
       866025, 906308, 939693, 965926, 984808, 996195, 1000000, 996195,
       984808, 965926, 939693, 906308, 866025, 819152, 766044, 707107,
       642788, 573576, 500001, 422618, 342020, 258819, 173648, 87156 >>

CosNegative == { a \in 0..359 : a % 5 = 0 /\ a > 90 /\ a <= 270 }

\* (wind_dir_deg - rwy_heading_deg) % 360, Python modulo (result in 0..359)
AngleDiff(rwy_heading_deg, wind_dir_deg) == (wind_dir_deg - rwy_heading_deg) % 360

\* round(abs(speed * trig)) with speed in tenths of a knot
ComponentMagnitude(speed10, micro) == RoundHalfEven(speed10 * micro, 10000000)

\* head >= 0 on the unrounded float: 0 * cos is +0.0 or -0.0, both >= 0
HeadIsNonNegativeNoCalm(angle, speed10) == angle \notin CosNegative

HeadIsNonNegative(angle, speed10) == speed10 = 0 \/ angle \notin CosNegative

wind_components(rwy_heading_deg, wind_dir_deg, speed10) ==
    LET angle == AngleDiff(rwy_heading_deg, wind_dir_deg)
        idx   == (angle \div 5) + 1
    IN  [ head    |-> ComponentMagnitude(speed10, CosMicro[idx]),
          cross   |-> ComponentMagnitude(speed10, SinMicro[idx]),
          is_head |-> HeadIsNonNegative(angle, speed10) ]

gust_components(rwy_heading_deg, wind_dir_deg, gust10) ==
    LET angle == AngleDiff(rwy_heading_deg, wind_dir_deg)
        idx   == (angle \div 5) + 1
    IN  [ head    |-> ComponentMagnitude(gust10, CosMicro[idx]),
          cross   |-> ComponentMagnitude(gust10, SinMicro[idx]),
          is_head |-> HeadIsNonNegative(angle, gust10) ]

(***************************************************************************)
(* 4.2 Atmospheric derivations.  Altitudes are carried in hundredths of a  *)
(* foot until int() truncates them.                                        *)
(***************************************************************************)
\* field_elev_ft + (29.92 - altim_in_hg) * 1000, in hundredths of a foot
pressure_alt(field_elev_ft, altim100) ==
    100 * field_elev_ft + (2992 - altim100) * 1000

\* int(pa + 120 * (temp_c - isa_temp)) before the range checks;
\* isa_temp = 15 - 2 * (elev / 1000), so 120 * isa_temp = 1800 - 0.24 * elev
density_alt_raw_floor(field_elev_ft, temp10, altim100) ==
    (pressure_alt(field_elev_ft, altim100)
       + 1200 * temp10 - (180000 - 24 * field_elev_ft)) \div 100

density_alt_raw(field_elev_ft, temp10, altim100) ==
    Trunc(pressure_alt(field_elev_ft, altim100)
            + 1200 * temp10 - (180000 - 24 * field_elev_ft), 100)

density_alt_unchecked(field_elev_ft, temp10, altim100) ==
    density_alt_raw(field_elev_ft, temp10, altim100)

density_alt(field_elev_ft, temp10, altim100) ==
    IF temp10 < -600 \/ temp10 > 500 THEN 0
    ELSE LET da == density_alt_raw(field_elev_ft, temp10, altim100)
         IN  IF da < -1000 \/ da > 20000 THEN 0 ELSE da


(***************************************************************************)
(* Time of day (src/functions/time_factors.py).  The solar ephemeris of    *)
(* calculate_sun_position is not modelled: the wall clock is the record    *)
(* clock = [hour, zenith, angle_diff], the UTC hour together with the sun  *)
(* zenith angle and the sun/runway azimuth difference (whole degrees)      *)
(* that the ephemeris yields at that instant for the supplied position.    *)
(***************************************************************************)
get_time_period(now) ==
    IF now.zenith < 90
    THEN IF now.zenith > 80 THEN "TWILIGHT" ELSE "DAY"
    ELSE "NIGHT"

\* time_factors["time_risk_points"], in points
calculate_time_risk_factor(now) ==
    LET time_period == get_time_period(now)
        period_pts  == IF time_period = "NIGHT" THEN 20
                       ELSE IF time_period = "TWILIGHT" THEN 15 ELSE 0
        glare_pts   == IF now.zenith < 90
                       THEN IF now.angle_diff <= 15 /\ now.zenith <= 20 THEN 25
                            ELSE IF now.angle_diff <= 30 /\ now.zenith <= 30 THEN 15
                            ELSE 0
                       ELSE 0
    IN  Min(period_pts + glare_pts, 30)

\* the time_of_day label of calculate_advanced_rri
TimeOfDay(current_hour) ==
    IF 6 <= current_hour /\ current_hour < 10 THEN "early_morning"
    ELSE IF 10 <= current_hour /\ current_hour < 14 THEN "midday"
    ELSE IF 14 <= current_hour /\ current_hour < 18 THEN "afternoon"
    ELSE IF 18 <= current_hour /\ current_hour < 22 THEN "evening"
    ELSE "late_evening"

(***************************************************************************)
(* 4.3 Risk factor library.  Every operator returns the factor's score in  *)
(* score units.                                                            *)
(***************************************************************************)
calculate_thermal_gradient_risk(temp10, dewpoint, time_of_day) ==
    IF IsNone(dewpoint) THEN 0
    ELSE LET spread10 == temp10 - Val(dewpoint)
             thermal  == IF temp10 > 250 /\ spread10 > 100
                            /\ time_of_day \in {"afternoon", "midday"}
                         THEN 15 ELSE 0
             inversion == IF temp10 < 50 /\ spread10 < 30
                             /\ time_of_day \in {"early_morning", "late_evening"}
                          THEN 10 ELSE 0
         IN  Pts(Min(thermal + inversion, 20))

calculate_stability_index(temp10, dewpoint, wind_speed10) ==
    IF IsNone(dewpoint) THEN 0
    ELSE LET spread10 == temp10 - Val(dewpoint)
             \* min(25, (30 - temp_c + (5 - spread)) * 2) in score units
             convective_risk == Min(Pts(25), (300 - temp10 + (50 - spread10)) * 40)
             convective == IF temp10 > 200 /\ spread10 < 50 /\ convective_risk > 0
                           THEN convective_risk ELSE 0
             mechanical == IF wind_speed10 > 200 /\ spread10 > 150 THEN Pts(10) ELSE 0
         IN  Min(convective + mechanical, Pts(30))

\* contamination_multipliers, in hundredths
ContaminationMultiplier(contamination) ==
    CASE contamination = "dry"            -> 100
      [] contamination = "wet"            -> 115
      [] contamination = "standing_water" -> 140
      [] contamination = "slush"          -> 160
      [] contamination = "snow"           -> 180
      [] contamination = "ice"            -> 220
      [] OTHER                            -> 100

\* effective_runway < limit (limit a multiple of 100), with effective_runway =
\* runway_length / multiplier [ / (1 + da_diff / 10000) when da_diff > 1000 ]
EffectiveRunwayBelow(runway_length, da_diff, contamination, limit) ==
    LET m == ContaminationMultiplier(contamination)
    IN  IF da_diff > 1000
        THEN runway_length * 10000 < (limit \div 100) * m * (10000 + da_diff)
        ELSE runway_length * 100 < limit * m

calculate_runway_performance_risk(runway_length, da_diff, contamination) ==
    IF IsNone(runway_length)
    THEN IF da_diff > 2000 THEN Pts(15)
         ELSE IF da_diff > 1000 THEN Pts(10)
         ELSE IF da_diff > 500 THEN Pts(5)
         ELSE 0
    ELSE LET len == Val(runway_length)
             degradation == IF da_diff > 3000 THEN 20
                            ELSE IF da_diff > 2000 THEN 15
                            ELSE 0
             length_pts == IF EffectiveRunwayBelow(len, da_diff, contamination, 2000) THEN 30
                           ELSE IF EffectiveRunwayBelow(len, da_diff, contamination, 2500) THEN 20
                           ELSE IF EffectiveRunwayBelow(len, da_diff, contamination, 3000) THEN 10
                           ELSE 0
         IN  Pts(Min(degradation + length_pts, 35))

heavy_precip_types ==
    << <<"+RA", 20>>, <<"+SN", 25>>, <<"+TSRA", 35>>,
       <<"+FZRA", 40>>, <<"+PL", 30>>, <<"+GR", 50>> >>

moderate_precip_types ==
    << <<"RA", 8>>, <<"SN", 12>>, <<"TSRA", 18>>, <<"FZRA", 25>>, <<"PL", 15>> >>

light_precip_types ==
    << <<"-RA", 3>>, <<"-SN", 5>>, <<"-FZRA", 15>> >>

\* the points of the first table entry (in dict order) whose code is in the
\* condition; 0 when the for loop falls through to its else branch
RECURSIVE FirstMatch(_, _, _)
FirstMatch(table, i, condition) ==
    IF i > Len(table) THEN 0
    ELSE IF Contains(table[i][1], condition) THEN table[i][2]
    ELSE FirstMatch(table, i + 1, condition)

ConditionPrecipPoints(condition) ==
    LET heavy == FirstMatch(heavy_precip_types, 1, condition)
        moderate == FirstMatch(moderate_precip_types, 1, condition)
        light == FirstMatch(light_precip_types, 1, condition)
    IN  IF heavy > 0 THEN heavy
        ELSE IF moderate > 0 THEN moderate
        ELSE light

RECURSIVE SumPrecipPoints(_, _)
SumPrecipPoints(weather, i) ==
    IF i > Len(weather) THEN 0
    ELSE ConditionPrecipPoints(weather[i]) + SumPrecipPoints(weather, i + 1)

calculate_precipitation_intensity_risk(weather) ==
    Pts(Min(SumPrecipPoints(weather, 1), 50))

\* int((terrain_factor - 1.0) * 20) with terrain_factor in tenths
TerrainScore(terrain10) == ((terrain10 - 10) * 20) \div 10

calculate_turbulence_risk(wind_speed10, wind_gust10, terrain10) ==
    LET \* gust_factor = wind_gust / max(wind_speed, 1) against 2.0, 1.5, 1.3
        base10 == Max(wind_speed10, 10)
        gustiness == IF wind_gust10 > 0
                     THEN IF 10 * wind_gust10 > 20 * base10 THEN 20
                          ELSE IF 10 * wind_gust10 > 15 * base10 THEN 15
                          ELSE IF 10 * wind_gust10 > 13 * base10 THEN 10
                          ELSE 0
                     ELSE 0
        strong == IF wind_speed10 > 250 THEN 15
                  ELSE IF wind_speed10 > 200 THEN 10
                  ELSE 0
        terrain == IF terrain10 > 10 THEN TerrainScore(terrain10) ELSE 0
    IN  Pts(Min(gustiness + strong + terrain, 25))

wind_risks == {"tailwind", "crosswind", "gust_differential", "gust_tailwind", "gust_crosswind"}

weather_risks == {"thunderstorm", "lightning", "low_ceiling", "low_visibility", "icing_conditions"}

performance_risks == {"density_altitude_diff", "temperature_performance"}

DomainScore(contributors, risks) ==
    SumScores(contributors, risks \cap DOMAIN contributors)

\* the amplification returned without min(amplification_score, 25)
calculate_risk_amplification_uncapped(contributors) ==
    LET wind_score == DomainScore(contributors, wind_risks)
        weather_score == DomainScore(contributors, weather_risks)
        performance_score == DomainScore(contributors, performance_risks)
        active_domains == (IF wind_score > Pts(20) THEN 1 ELSE 0)
                          + (IF weather_score > Pts(20) THEN 1 ELSE 0)
                          + (IF performance_score > Pts(15) THEN 1 ELSE 0)
        multi == IF active_domains >= 2 THEN Min(15, active_domains * 5) ELSE 0
        icing_ceiling == IF "icing_conditions" \in DOMAIN contributors
                            /\ "low_ceiling" \in DOMAIN contributors
                         THEN 10 ELSE 0
        storm_wind == IF "thunderstorm" \in DOMAIN contributors /\ wind_score > Pts(15)
                      THEN 15 ELSE 0
        da_wind == IF ScoreOf(contributors, "density_altitude_diff") > Pts(20)
                      /\ wind_score > Pts(15)
                   THEN 10 ELSE 0
    IN  Pts(multi + icing_ceiling + storm_wind + da_wind)

calculate_risk_amplification(contributors) ==
    LET wind_score == DomainScore(contributors, wind_risks)
        weather_score == DomainScore(contributors, weather_risks)
        performance_score == DomainScore(contributors, performance_risks)
        active_domains == (IF wind_score > Pts(20) THEN 1 ELSE 0)
                          + (IF weather_score > Pts(20) THEN 1 ELSE 0)
                          + (IF performance_score > Pts(15) THEN 1 ELSE 0)
        multi == IF active_domains >= 2 THEN Min(15, active_domains * 5) ELSE 0
        icing_ceiling == IF "icing_conditions" \in DOMAIN contributors
                            /\ "low_ceiling" \in DOMAIN contributors
                         THEN 10 ELSE 0
        storm_wind == IF "thunderstorm" \in DOMAIN contributors /\ wind_score > Pts(15)
                      THEN 15 ELSE 0
        da_wind == IF ScoreOf(contributors, "density_altitude_diff") > Pts(20)
                      /\ wind_score > Pts(15)
                   THEN 10 ELSE 0
    IN  Pts(Min(multi + icing_ceiling + storm_wind + da_wind, 25))

\* historical_trend: None, or [pressure_trend (hundredths inHg), temp_trend
\* (tenths C)]; a field the dict lacks is 0, which Python also skips
calculate_trend_risk(current_conditions, historical_trend, current_hour) ==
    IF IsNone(historical_trend) THEN 0
    ELSE LET trend == Val(historical_trend)
             \* current_conditions.get("temp_c", 0)
             temp10 == IF IsNone(current_conditions.temp_c) THEN 0
                       ELSE Val(current_conditions.temp_c)
             pressure == IF trend.pressure_trend # 0
                         THEN IF trend.pressure_trend < -10 THEN 15
                              ELSE IF trend.pressure_trend < -5 THEN 8
                              ELSE 0
                         ELSE 0
             heating == IF trend.temp_trend # 0 /\ current_hour \in 14..17
                           /\ trend.temp_trend > 30 /\ temp10 > 250
                        THEN 10 ELSE 0
         IN  Pts(Min(pressure + heating, 20))

HasCeilingLayer(cloud_layers) ==
    \E i \in 1..Len(cloud_layers) : cloud_layers[i] \in {"BKN", "OVC"}

\* the icing score returned without min(score, 30)
calculate_icing_risk_unclamped(temp10, metar_data) ==
    LET weather == metar_data.weather
        clouds == HasCeilingLayer(metar_data.cloud_layers)
        freezing == IF AnyContains("FZ", weather) THEN 30 ELSE 0
        banded == IF -100 <= temp10 /\ temp10 <= 20 /\ clouds
                  THEN IF 0 <= temp10 /\ temp10 <= 20 THEN 25 ELSE 20
                  ELSE 0
        humid == IF ~IsNone(metar_data.dewpoint_c)
                    /\ temp10 - Val(metar_data.dewpoint_c) <= 30
                    /\ -50 <= temp10 /\ temp10 <= 50 /\ clouds
                 THEN 15 ELSE 0
        pellets == IF AnyContains("IC", weather) \/ AnyContains("PL", weather)
                   THEN 20 ELSE 0
    IN  Pts(freezing + banded + humid + pellets)

calculate_icing_risk(temp10, metar_data) ==
    LET weather == metar_data.weather
        clouds == HasCeilingLayer(metar_data.cloud_layers)
        freezing == IF AnyContains("FZ", weather) THEN 30 ELSE 0
        banded == IF -100 <= temp10 /\ temp10 <= 20 /\ clouds
                  THEN IF 0 <= temp10 /\ temp10 <= 20 THEN 25 ELSE 20
                  ELSE 0
        humid == IF ~IsNone(metar_data.dewpoint_c)
                    /\ temp10 - Val(metar_data.dewpoint_c) <= 30
                    /\ -50 <= temp10 /\ temp10 <= 50 /\ clouds
                 THEN 15 ELSE 0
        pellets == IF AnyContains("IC", weather) \/ AnyContains("PL", weather)
                   THEN 20 ELSE 0
    IN  Pts(Min(freezing + banded + humid + pellets, 30))

calculate_temperature_performance_risk(temp10, da_diff) ==
    LET hot == IF temp10 > 350 THEN 15 ELSE IF temp10 > 300 THEN 10 ELSE 0
        cold == IF temp10 < -200 THEN 15 ELSE IF temp10 < -100 THEN 10 ELSE 0
        combined == IF temp10 > 300 /\ da_diff > 1000 THEN 10 ELSE 0
    IN  Pts(Min(hot + cold + combined, 25))

calculate_wind_shear_risk(metar_data) ==
    LET weather == metar_data.weather
        storm == IF AnyContains("TS", weather) THEN 25 ELSE 0
        shower == IF AnyContains("SH", weather) THEN 15 ELSE 0
    IN  Pts(Min(storm + shower, 25))

\* uncapped: volcanic ash alone contributes 100
parse_enhanced_weather_conditions(metar_data) ==
    LET weather == metar_data.weather
        fog == IF AnyContains("FG", weather) THEN 15 ELSE 0
        mist == IF AnyContains("BR", weather) \/ AnyContains("HZ", weather) THEN 5 ELSE 0
        dust == IF AnyContains("DU", weather) \/ AnyContains("SA", weather)
                   \/ AnyContains("DS", weather)
                THEN 20 ELSE 0
        ash == IF AnyContains("VA", weather) THEN 100 ELSE 0
        squall == IF AnyContains("SQ", weather) THEN 30 ELSE 0
    IN  Pts(fog + mist + dust + ash + squall)

\* str.upper() on the letters NOTAM texts are written with
UpperChar(c) ==
    CASE c = "a" -> "A" [] c = "b" -> "B" [] c = "c" -> "C" [] c = "d" -> "D"
      [] c = "e" -> "E" [] c = "f" -> "F" [] c = "g" -> "G" [] c = "h" -> "H"
      [] c = "i" -> "I" [] c = "j" -> "J" [] c = "k" -> "K" [] c = "l" -> "L"
      [] c = "m" -> "M" [] c = "n" -> "N" [] c = "o" -> "O" [] c = "p" -> "P"
      [] c = "q" -> "Q" [] c = "r" -> "R" [] c = "s" -> "S" [] c = "t" -> "T"
      [] c = "u" -> "U" [] c = "v" -> "V" [] c = "w" -> "W" [] c = "x" -> "X"
      [] c = "y" -> "Y" [] c = "z" -> "Z" [] OTHER -> c

RECURSIVE Upper(_)
Upper(text) ==
    IF Len(text) = 0 THEN ""
    ELSE UpperChar(SubSeq(text, 1, 1)) \o Upper(SubSeq(text, 2, Len(text)))

ContainsAny(keywords, text) == \E k \in keywords : Contains(k, text)

\* len(notam_text.strip()): NOTAM texts carry no leading or trailing blanks
StrippedLen(text) == Len(text)

\* notam_data: None, or the dict's raw_text
parse_notam_risks(notam_data) ==
    IF IsNone(notam_data) \/ Val(notam_data) = "" THEN 0
    ELSE LET notam_text == Upper(Val(notam_data))
         IN  IF ContainsAny({"<!DOCTYPE", "<HTML>", "INVALID QUERY", "ERROR", "<TITLE>"},
                            notam_text)
             THEN 0
             ELSE IF StrippedLen(notam_text) < 50 \/ ~Contains("NOTAM", notam_text)
             THEN 0
             ELSE LET contamination ==
                          IF ContainsAny({"SNOW", "ICE", "SLUSH", "WET", "CONTAMINATED"},
                                         notam_text)
                          THEN 20 ELSE 0
                      equipment ==
                          IF ContainsAny({"ILS", "PAPI", "VASI", "LIGHTS", "BEACON"},
                                         notam_text)
                          THEN 10 ELSE 0
                      construction ==
                          IF ContainsAny({"CONSTRUCTION", "OBSTACLE", "WORK IN PROGRESS"},
                                         notam_text)
                          THEN 15 ELSE 0
                  IN  Pts(Min(contamination + equipment + construction, 25))

(***************************************************************************)
(* 4.4 Risk aggregator.  The running state of an aggregation is            *)
(* [score, contributors]; contributors maps the factor names that have an  *)
(* entry to the entry's "score".  An argument record a carries             *)
(*   head, cross, gust_head, gust_cross, wind_speed, wind_gust, is_head,   *)
(*   gust_is_head, da_diff, metar_data = [temp_c, dewpoint_c, weather,     *)
(*   ceiling, visibility, cloud_layers], position (lat, lon and            *)
(*   rwy_heading all given or not), notam_data, runway_length,             *)
(*   terrain_factor, historical_trend.                                     *)
(***************************************************************************)
Start == [score |-> 0, contributors |-> NoContributors]

\* contributors[key] = {...}; score += v
AddOverwritesTotal(st, key, v) ==
    [score |-> v, contributors |-> Put(st.contributors, key, v)]

Add(st, key, v) ==
    [score |-> st.score + v, contributors |-> Put(st.contributors, key, v)]

\* if v > 0: contributors[key] = {...}; score += v
AddIfPositiveUnguarded(st, key, v) == Add(st, key, v)

AddIfPositive(st, key, v) == IF v > 0 THEN Add(st, key, v) ELSE st

\* contributors[key] = {...}; score = 100
OverrideKeepsTotal(st, key, v) ==
    [score |-> st.score, contributors |-> Put(st.contributors, key, v)]

Override(st, key, v) ==
    [score |-> Pts(100), contributors |-> Put(st.contributors, key, v)]

\* metar_data.get("temp_c", 15)
MetarTemp(metar_data) ==
    IF IsNone(metar_data.temp_c) THEN 150 ELSE Val(metar_data.temp_c)

\* tailwind, crosswind, gust and density-altitude terms, identical in both
\* aggregators (lines 483-516 and 667-700)
WindAndDensityTerms(st, a) ==
    LET s1 == IF ~a.is_head
              THEN AddIfPositive(st, "tailwind", Min(Pts(30), Pts(a.head * 6)))
              ELSE st
        s2 == IF a.cross > 0
              THEN AddIfPositive(s1, "crosswind", Min(Pts(30), Pts(a.cross * 2)))
              ELSE s1
        \* (gust_diff_val / 10) * 20 with the difference in tenths of a knot
        s3 == IF a.wind_gust > 0
              THEN AddIfPositive(s2, "gust_differential",
                                 Min(Pts(20), (a.wind_gust - a.wind_speed) * 40))
              ELSE s2
        s4 == IF a.wind_gust > 0 /\ ~a.gust_is_head
              THEN AddIfPositive(s3, "gust_tailwind", Min(Pts(10), Pts(a.gust_head)))
              ELSE s3
        \* (gust_cross / 20) * 10
        s5 == IF a.wind_gust > 0 /\ a.gust_cross > 0
              THEN AddIfPositive(s4, "gust_crosswind", Min(Pts(10), a.gust_cross * 100))
              ELSE s4
        \* (da_diff / 2000) * 30
        s6 == IF a.da_diff > 0
              THEN AddIfPositive(s5, "density_altitude_diff", Min(Pts(30), a.da_diff * 3))
              ELSE s5
    IN  s6

\* the time-of-day term added without the test for lat, lon and rwy_heading
TimeOfDayTermUnguarded(st, a, now) ==
    AddIfPositive(st, "time_of_day", Pts(calculate_time_risk_factor(now)))

TimeOfDayTerm(st, a, now) ==
    IF ~IsNone(a.position)
    THEN AddIfPositive(st, "time_of_day", Pts(calculate_time_risk_factor(now)))
    ELSE st

\* icing, temperature performance, wind shear (lines 571-584 and 708-721)
IcingTempShearTerms(st, a) ==
    LET temp_c == MetarTemp(a.metar_data)
        s1 == AddIfPositive(st, "icing_conditions", calculate_icing_risk(temp_c, a.metar_data))
        s2 == AddIfPositive(s1, "temperature_performance",
                            calculate_temperature_performance_risk(temp_c, a.da_diff))
        s3 == AddIfPositive(s2, "wind_shear_risk", calculate_wind_shear_risk(a.metar_data))
    IN  s3

\* lines 586-593 and 723-730
EnhancedWeatherTerm(st, a) ==
    LET enhanced_wx_score == parse_enhanced_weather_conditions(a.metar_data)
    IN  IF enhanced_wx_score > 0
        THEN IF enhanced_wx_score >= Pts(100)
             THEN Override(st, "volcanic_ash", enhanced_wx_score)
             ELSE Add(st, "enhanced_weather", enhanced_wx_score)
        ELSE st

NotamTerm(st, a) == AddIfPositive(st, "notam_risks", parse_notam_risks(a.notam_data))

CeilingScore(ceiling) ==
    IF ceiling < 500 THEN 40
    ELSE IF ceiling < 1000 THEN 30
    ELSE IF ceiling < 2000 THEN 20
    ELSE IF ceiling < 3000 THEN 10
    ELSE 0

VisibilityScore(visibility100) ==
    IF visibility100 < 100 THEN 40
    ELSE IF visibility100 < 200 THEN 30
    ELSE IF visibility100 < 300 THEN 20
    ELSE IF visibility100 < 500 THEN 10
    ELSE 0

\* thunderstorm, lightning, ceiling, visibility, hail, funnel cloud,
\* freezing and heavy precipitation (lines 600-648 and 736-784)
SevereWeatherTerms(st, a) ==
    LET weather == a.metar_data.weather
        ceiling == a.metar_data.ceiling
        visibility == a.metar_data.visibility
        s1 == IF AnyContains("TS", weather) THEN Override(st, "thunderstorm", Pts(100)) ELSE st
        s2 == IF AnyContains("LTG", weather) THEN Add(s1, "lightning", Pts(25)) ELSE s1
        s3 == IF s2.score < Pts(100) /\ ~IsNone(ceiling)
              THEN AddIfPositive(s2, "low_ceiling", Pts(CeilingScore(Val(ceiling))))
              ELSE s2
        s4 == IF s3.score < Pts(100) /\ ~IsNone(visibility)
              THEN AddIfPositive(s3, "low_visibility", Pts(VisibilityScore(Val(visibility))))
              ELSE s3
        guard == s4.score < Pts(100)
        s5 == IF guard /\ AnyContains("GR", weather) THEN Add(s4, "hail", Pts(40)) ELSE s4
        s6 == IF guard /\ AnyContains("FC", weather)
              THEN Override(s5, "funnel_cloud", Pts(100)) ELSE s5
        s7 == IF guard /\ AnyContains("FZ", weather)
              THEN Add(s6, "freezing_precipitation", Pts(30)) ELSE s6
        s8 == IF guard /\ AnyContains("+", weather)
              THEN Add(s7, "heavy_precipitation", Pts(20)) ELSE s7
    IN  s8

\* lines 528-542
Contamination(a) ==
    LET weather == a.metar_data.weather
    IN  IF AnyContains("SN", weather) THEN "snow"
        ELSE IF AnyContains("FZRA", weather) THEN "ice"
        ELSE IF AnyContains("RA", weather) THEN "wet"
        ELSE IF ~IsNone(a.notam_data) /\ Val(a.notam_data) # ""
        THEN LET notam_text == Upper(Val(a.notam_data))
             IN  IF ContainsAny({"ICE", "SLUSH"}, notam_text) THEN "ice"
                 ELSE IF ContainsAny({"SNOW"}, notam_text) THEN "snow"
                 ELSE IF ContainsAny({"WET", "STANDING WATER"}, notam_text) THEN "wet"
                 ELSE "dry"
        ELSE "dry"

\* thermal, stability, runway performance, precipitation, turbulence, trend
\* (lines 518-563)
AdvancedTerms(st, a, now) ==
    LET temp_c == MetarTemp(a.metar_data)
        dewpoint_c == a.metar_data.dewpoint_c
        s1 == AddIfPositive(st, "thermal_gradient",
                  calculate_thermal_gradient_risk(temp_c, dewpoint_c, TimeOfDay(now.hour)))
        s2 == AddIfPositive(s1, "atmospheric_stability",
                  calculate_stability_index(temp_c, dewpoint_c, a.wind_speed))
        s3 == AddIfPositive(s2, "runway_performance",
                  calculate_runway_performance_risk(a.runway_length, a.da_diff, Contamination(a)))
        s4 == AddIfPositive(s3, "precipitation_intensity",
                  calculate_precipitation_intensity_risk(a.metar_data.weather))
        s5 == AddIfPositive(s4, "turbulence_risk",
                  calculate_turbulence_risk(a.wind_speed, a.wind_gust, a.terrain_factor))
        s6 == IF ~IsNone(a.historical_trend)
              THEN AddIfPositive(s5, "trend_analysis",
                       calculate_trend_risk(a.metar_data, a.historical_trend, now.hour))
              ELSE s5
    IN  s6

AmplificationTerm(st) ==
    AddIfPositive(st, "risk_amplification", calculate_risk_amplification(st.contributors))

\* round(min(100, score)), contributors
FinishUnclamped(st) ==
    [score |-> RoundHalfEven(st.score, Pts(1)), contributors |-> st.contributors]

Finish(st) ==
    [score |-> RoundHalfEven(Min(Pts(100), st.score), Pts(1)),
     contributors |-> st.contributors]

calculate_advanced_rri_without_notam(a, now) ==
    LET s1 == WindAndDensityTerms(Start, a)
        s2 == AdvancedTerms(s1, a, now)
        s3 == TimeOfDayTerm(s2, a, now)
        s4 == IcingTempShearTerms(s3, a)
        s5 == EnhancedWeatherTerm(s4, a)
        s7 == SevereWeatherTerms(s5, a)
        s8 == AmplificationTerm(s7)
    IN  Finish(s8)

calculate_advanced_rri(a, now) ==
    LET s1 == WindAndDensityTerms(Start, a)
        s2 == AdvancedTerms(s1, a, now)
        s3 == TimeOfDayTerm(s2, a, now)
        s4 == IcingTempShearTerms(s3, a)
        s5 == EnhancedWeatherTerm(s4, a)
        s6 == NotamTerm(s5, a)
        s7 == SevereWeatherTerms(s6, a)
        s8 == AmplificationTerm(s7)
    IN  Finish(s8)

calculate_rri(a, now) ==
    LET s1 == WindAndDensityTerms(Start, a)
        s2 == TimeOfDayTerm(s1, a, now)
        s3 == IcingTempShearTerms(s2, a)
        s4 == EnhancedWeatherTerm(s3, a)
        s5 == SevereWeatherTerms(s4, a)
        s6 == NotamTerm(s5, a)
    IN  Finish(s6)

get_rri_category_strict(rri) ==
    IF rri < 25 THEN "LOW"
    ELSE IF rri < 50 THEN "MODERATE"
    ELSE IF rri < 75 THEN "HIGH"
    ELSE "EXTREME"

get_rri_category(rri) ==
    IF rri <= 25 THEN "LOW"
    ELSE IF rri <= 50 THEN "MODERATE"
    ELSE IF rri <= 75 THEN "HIGH"
    ELSE "EXTREME"

get_status_from_rri(rri) ==
    IF rri >= 76 THEN "NO-GO"
    ELSE IF rri > 50 THEN "CAUTION"
    ELSE "GOOD"

(***************************************************************************)
(* 4.5 Perturbation model (core/probabilistic_rri.py).  Speeds are carried *)
(* in tenths of a knot, temperatures in tenths of a degree, altimeter      *)
(* settings and visibilities in hundredths, ceilings in feet, directions   *)
(* in degrees; a perturbed value that falls between two points of its      *)
(* grid is taken to the nearest one.  An optional key of base_conditions   *)
(* is None when absent.  The values the random generators return are       *)
(* arguments (the records d, x and t below).                               *)
(***************************************************************************)
wind_dir_bounds == << -15, 15 >>

\* hundredths of a knot
wind_speed_bounds == << -500, 800 >>

temp_bounds == << -40, 40 >>

pressure_bounds == << -5, 5 >>

\* 0.85, in hundredths
gust_correlation == 85

\* np.clip
Clip(x, bounds) == Max(bounds[1], Min(bounds[2], x))

\* the nearest grid point to num/den
Grid(num, den) ==
    IF num >= 0 THEN RoundHalfEven(num, den) ELSE -RoundHalfEven(-num, den)

\* conditions.get("wind_gust", 0)
GetGust(conditions) ==
    IF IsNone(conditions.wind_gust) THEN 0 ELSE Val(conditions.wind_gust)

\* conditions.get("weather", [])
GetWeather(conditions) ==
    IF IsNone(conditions.weather) THEN << >> ELSE Val(conditions.weather)

\* bias factors in tenths
BiasFactors(scenario_type) ==
    IF scenario_type = "deteriorating"
    THEN [wind_speed |-> 15, wind_gust |-> 18, visibility |-> 7, ceiling |-> 8]
    ELSE IF scenario_type = "improving"
    THEN [wind_speed |-> 7, wind_gust |-> 6, visibility |-> 13, ceiling |-> 12]
    ELSE [wind_speed |-> 10, wind_gust |-> 10, visibility |-> 10, ceiling |-> 10]

\* lines 107-109: the clipped delta and the perturbed speed, in hundredths
WindSpeedDelta(d, bias) == Clip(d.wind_speed * bias.wind_speed, wind_speed_bounds)

PerturbedWindSpeed100(base, d, bias) ==
    Max(0, base.wind_speed * 10 + WindSpeedDelta(d, bias))

\* lines 111-121: the perturbed gust in tenths; without a base gust one is
\* synthesized for a wind above 15 kt with probability 0.3
PerturbedWindGust(base, d, bias) ==
    LET speed100 == PerturbedWindSpeed100(base, d, bias)
    IN  IF GetGust(base) > 0
        THEN LET base_gust_diff == GetGust(base) - base.wind_speed
                 \* 1/100000 kt
                 gust_delta == (WindSpeedDelta(d, bias) * gust_correlation
                                + d.gust_noise * 10 * (100 - gust_correlation))
                               * bias.wind_gust
                 new_gust_diff == Max(0, base_gust_diff * 10000 + gust_delta)
             IN  Some(Grid(speed100 * 1000 + new_gust_diff, 10000))
        ELSE IF speed100 > 1500 /\ d.gust_chance < 30
             THEN Some(Grid(speed100 + d.gust_add * 10, 10))
             ELSE base.wind_gust

\* lines 132-135, in hundredths of a statute mile
PerturbedVisibility(visibility100, d, bias) ==
    LET vis_factor == Max(100, 1000 + d.visibility * bias.visibility)
    IN  Grid(Max(25000, visibility100 * vis_factor), 1000)

\* lines 137-140, in feet
PerturbedCeiling(ceiling, d, bias) ==
    LET ceiling_factor == Max(100, 1000 + d.ceiling * bias.ceiling)
    IN  Grid(Max(100000, ceiling * ceiling_factor), 1000)

\* lines 103-105.  The direction draw is d.wind_dir degrees; when that is 0
\* the draw may still be a nonzero double too small to change any nonzero
\* sum (d.wind_dir_tiny is its sign).  Added to a base direction of 0 it
\* stays the sum, and the float remainder of a negative one is
\* 360 + sum = 360.0
PerturbedWindDir(base, d) ==
    IF base.wind_dir = 0 /\ d.wind_dir = 0 /\ d.wind_dir_tiny < 0 THEN 360
    ELSE (base.wind_dir + Clip(d.wind_dir, wind_dir_bounds)) % 360

perturb_correlated_weather(base, scenario_type, d) ==
    LET bias == BiasFactors(scenario_type)
    IN  [ base EXCEPT
            !.wind_dir = PerturbedWindDir(base, d),
            !.wind_speed = Grid(PerturbedWindSpeed100(base, d, bias), 10),
            !.wind_gust = PerturbedWindGust(base, d, bias),
            !.temp_c = @ + Clip(d.temp, temp_bounds),
            !.altim_in_hg = IF IsNone(@) THEN @
                            ELSE Some(Val(@) + Clip(d.pressure, pressure_bounds)),
            !.visibility = IF IsNone(@) THEN @
                           ELSE Some(PerturbedVisibility(Val(@), d, bias)),
            !.ceiling = IF IsNone(@) THEN @
                        ELSE Some(PerturbedCeiling(Val(@), d, bias)) ]

(***************************************************************************)
(* Scenario generator                                                      *)
(***************************************************************************)
RECURSIVE Power(_, _)
Power(b, n) == IF n = 0 THEN 1 ELSE b * Power(b, n - 1)

\* lines 152-174 for one hour; t holds the uniform draws of the hour, the
\* evolution factors as fractions
TemporalScenario(base, hour, t) ==
    LET wind_speed == Max(0, Grid(base.wind_speed * Power(t.wind.num, hour),
                                  Power(t.wind.den, hour)))
        wind_gust == IF GetGust(base) > 0
                     THEN Some(Max(wind_speed,
                                   Grid(GetGust(base) * Power(t.gust.num, hour),
                                        Power(t.gust.den, hour))))
                     ELSE base.wind_gust
    IN  [ conditions |->
              [ base EXCEPT
                  !.temp_c = @ + Grid(30 * SinMicro[3 * hour + 1], 1000000),
                  !.wind_speed = wind_speed,
                  !.wind_gust = wind_gust,
                  !.weather = IF t.fog_chance < 10 * hour
                              THEN Some(GetWeather(base) \o << "BR" >>) ELSE @ ],
          time_offset |-> hour,
          confidence |-> Max(30, 100 - 15 * hour) ]

\* lines 148-176
generate_temporal_scenarios(base, hours_ahead, draws) ==
    [ hour \in 1..hours_ahead |-> TemporalScenario(base, hour, draws[hour]) ]

\* lines 179-205; x holds the three uniform draws
generate_extreme_scenarios(base, x) ==
    LET wind_speed == Min(500, Grid(base.wind_speed * 18, 10))
        wind_extreme ==
            [ base EXCEPT !.wind_speed = wind_speed,
                          !.wind_gust = IF wind_speed > 150
                                        THEN Some(wind_speed + x.gust) ELSE @ ]
        visibility_extreme ==
            IF ~IsNone(base.visibility) /\ Val(base.visibility) # 0
            THEN [ base EXCEPT
                     !.visibility = Some(Max(25, Grid(Val(@) * 3, 10))),
                     !.weather = Some(GetWeather(base) \o << "FG" >>) ]
            ELSE base
        temp_extreme_hot == [ base EXCEPT !.temp_c = @ + x.hot ]
        cold == base.temp_c - x.cold
        temp_extreme_cold ==
            [ base EXCEPT !.temp_c = cold,
                          !.weather = IF cold < 20
                                      THEN Some(GetWeather(base) \o << "FZRA" >>) ELSE @ ]
    IN  << [type |-> "wind_extreme", conditions |-> wind_extreme],
           [type |-> "visibility_extreme", conditions |-> visibility_extreme],
           [type |-> "temperature_extreme_hot", conditions |-> temp_extreme_hot],
           [type |-> "temperature_extreme_cold", conditions |-> temp_extreme_cold] >>

(***************************************************************************)
(* 4.7 Statistical analyzer                                                *)
(***************************************************************************)
\* the samples in ascending order
RECURSIVE Insert(_, _)
Insert(sorted, x) ==
    IF sorted = << >> \/ x <= Head(sorted) THEN << x >> \o sorted
    ELSE << Head(sorted) >> \o Insert(Tail(sorted), x)

RECURSIVE Sorted(_)
Sorted(samples) ==
    IF samples = << >> THEN << >> ELSE Insert(Sorted(Tail(samples)), Head(samples))

\* the order statistics around the position (n - 1) * p / 100, interpolated
\* linearly, in hundredths
Interpolate(sorted, position) ==
    100 * sorted[(position \div 100) + 1]
    + (position % 100) * (sorted[Min((position \div 100) + 2, Len(sorted))]
                          - sorted[(position \div 100) + 1])

\* np.percentile(samples, p) in hundredths
Percentile(samples, p) ==
    LET sorted == Sorted(samples)
    IN  Interpolate(sorted, (Len(samples) - 1) * p)

\* calculate_percentiles without the empty-list test of line 259, the
\* percentile of no samples taken as 0
calculate_percentiles_unguarded(samples) ==
    [ label \in {"p01", "p05", "p10", "p25", "p50", "p75", "p90", "p95", "p99"} |->
        IF samples = << >> THEN Some(0)
        ELSE Some(Percentile(samples,
                 CASE label = "p01" -> 1 [] label = "p05" -> 5 [] label = "p10" -> 10
                   [] label = "p25" -> 25 [] label = "p50" -> 50 [] label = "p75" -> 75
                   [] label = "p90" -> 90 [] label = "p95" -> 95 [] label = "p99" -> 99)) ]

\* lines 254-263
calculate_percentiles(samples) ==
    [ label \in {"p01", "p05", "p10", "p25", "p50", "p75", "p90", "p95", "p99"} |->
        IF samples = << >> THEN None
        ELSE Some(Percentile(samples,
                 CASE label = "p01" -> 1 [] label = "p05" -> 5 [] label = "p10" -> 10
                   [] label = "p25" -> 25 [] label = "p50" -> 50 [] label = "p75" -> 75
                   [] label = "p90" -> 90 [] label = "p95" -> 95 [] label = "p99" -> 99)) ]

\* a dict without keys
NoFields == [ k \in {} |-> 0 ]

RECURSIVE SumOf(_)
SumOf(samples) == IF samples = << >> THEN 0 ELSE Head(samples) + SumOf(Tail(samples))

\* lines 211-229.  mean and variance are the exact quotients num / den,
\* median and iqr are in hundredths; std, skewness and kurtosis are
\* irrational functions of these moments and are not carried
calculate_comprehensive_statistics(samples) ==
    IF samples = << >> THEN NoFields
    ELSE LET sorted == Sorted(samples)
             n == Len(samples)
             sum == SumOf(samples)
             squares == SumOf([ k \in 1..n |-> samples[k] * samples[k] ])
         IN  [ mean |-> [num |-> sum, den |-> n],
               median |-> Interpolate(sorted, (n - 1) * 50),
               variance |-> [num |-> n * squares - sum * sum, den |-> n * n],
               min |-> sorted[1],
               max |-> sorted[n],
               range |-> sorted[n] - sorted[1],
               iqr |-> Interpolate(sorted, (n - 1) * 75)
                       - Interpolate(sorted, (n - 1) * 25) ]

\* the distribution with 75 counted as extreme too
analyze_risk_distribution_overlapping(samples) ==
    IF samples = << >> THEN NoFields
    ELSE [ total |-> Len(samples),
           low_risk |-> Len(SelectSeq(samples, LAMBDA s : s <= 25)),
           moderate_risk |-> Len(SelectSeq(samples, LAMBDA s : 25 < s /\ s <= 50)),
           high_risk |-> Len(SelectSeq(samples, LAMBDA s : 50 < s /\ s <= 75)),
           extreme_risk |-> Len(SelectSeq(samples, LAMBDA s : s >= 75)),
           no_go_probability |-> Len(SelectSeq(samples, LAMBDA s : s >= 75)),
           caution_probability |-> Len(SelectSeq(samples, LAMBDA s : 51 <= s /\ s <= 75)),
           good_probability |-> Len(SelectSeq(samples, LAMBDA s : s <= 50)) ]

\* lines 266-283; each fraction is its count over total
analyze_risk_distribution(samples) ==
    IF samples = << >> THEN NoFields
    ELSE [ total |-> Len(samples),
           low_risk |-> Len(SelectSeq(samples, LAMBDA s : s <= 25)),
           moderate_risk |-> Len(SelectSeq(samples, LAMBDA s : 25 < s /\ s <= 50)),
           high_risk |-> Len(SelectSeq(samples, LAMBDA s : 50 < s /\ s <= 75)),
           extreme_risk |-> Len(SelectSeq(samples, LAMBDA s : s > 75)),
           no_go_probability |-> Len(SelectSeq(samples, LAMBDA s : s >= 76)),
           caution_probability |-> Len(SelectSeq(samples, LAMBDA s : 51 <= s /\ s <= 75)),
           good_probability |-> Len(SelectSeq(samples, LAMBDA s : s <= 50)) ]

(***************************************************************************)
(* 4.6 Monte Carlo driver.  The aggregator calls of a run are listed in    *)
(* program order (main loop, extreme scenarios, temporal scenarios,        *)
(* sensitivity analysis), scored, and the result is assembled from the     *)
(* scored calls.                                                           *)
(***************************************************************************)
\* Python truthiness of an optional number
Truthy(x) == ~IsNone(x) /\ Val(x) # 0

\* the arguments of an aggregator call of the driver
AggregatorArgs(in, wc, gc, conditions, da_diff, metar_data, runway_length) ==
    [ head |-> wc.head, cross |-> wc.cross,
      gust_head |-> gc.head, gust_cross |-> gc.cross,
      wind_speed |-> conditions.wind_speed, wind_gust |-> GetGust(conditions),
      is_head |-> wc.is_head, gust_is_head |-> gc.is_head,
      da_diff |-> da_diff, metar_data |-> metar_data,
      position |-> in.position, notam_data |-> None,
      runway_length |-> runway_length, terrain_factor |-> 10,
      historical_trend |-> None ]

\* a calculate_rri call on the wind of conditions with the base da_diff
\* (lines 442-454, 467-479, 293-304, 335-341)
BasicCall(in, kind, conditions, metar_data, info) ==
    [ kind |-> kind, advanced |-> FALSE, conditions |-> conditions, info |-> info,
      a |-> AggregatorArgs(in,
               wind_components(in.rwy_heading, conditions.wind_dir, conditions.wind_speed),
               gust_components(in.rwy_heading, conditions.wind_dir, GetGust(conditions)),
               conditions, in.da_diff, metar_data, None) ]

\* the schedule with the bounds 0.1 N and 0.2 N taken inclusive
ScenarioTypeInclusive(i, num_draws) ==
    IF 10 * i <= num_draws THEN "deteriorating"
    ELSE IF 10 * i <= 2 * num_draws THEN "improving"
    ELSE "normal"

\* lines 375-380; i < num_draws * 0.1 in doubles decides as 10 i < num_draws
\* does for every num_draws up to 1000
ScenarioType(i, num_draws) ==
    IF 10 * i < num_draws THEN "deteriorating"
    ELSE IF 10 * i < 2 * num_draws THEN "improving"
    ELSE "normal"

\* lines 386-391: the copy of metar_data a draw is scored with
PerturbedMetar(metar_data, conditions) ==
    [ metar_data EXCEPT
        !.temp_c = Some(conditions.temp_c),
        !.visibility = IF IsNone(conditions.visibility) THEN @ ELSE conditions.visibility,
        !.ceiling = IF IsNone(conditions.ceiling) THEN @ ELSE conditions.ceiling ]

\* metar_data.copy() followed by update(conditions), lines 439-440 and 464-465
UpdatedMetar(metar_data, conditions) ==
    [ PerturbedMetar(metar_data, conditions) EXCEPT
        !.weather = IF IsNone(conditions.weather) THEN @ ELSE Val(conditions.weather) ]

\* lines 393-400
NewDaDiff(in, conditions) ==
    IF ~IsNone(conditions.altim_in_hg) /\ Truthy(in.airport_elevation)
    THEN density_alt(Val(in.airport_elevation), conditions.temp_c,
                     Val(conditions.altim_in_hg)) - Val(in.airport_elevation)
    ELSE in.da_diff

\* one pass of the main loop up to its aggregator call, lines 376-426
DrawCall(in, scenario_type, conditions) ==
    [ kind |-> "draw", advanced |-> Truthy(in.runway_length) /\ Truthy(in.airport_elevation),
      conditions |-> conditions, info |-> scenario_type,
      a |-> AggregatorArgs(in,
               wind_components(in.rwy_heading, conditions.wind_dir, conditions.wind_speed),
               IF GetGust(conditions) > 0
               THEN gust_components(in.rwy_heading, conditions.wind_dir, GetGust(conditions))
               ELSE [head |-> 0, cross |-> 0, is_head |-> TRUE],
               conditions, NewDaDiff(in, conditions),
               PerturbedMetar(in.metar_data, conditions), in.runway_length) ]

\* The caller's dicts.  A local variable refers to the caller's
\* base_conditions or metar_data object, or to a dict of its own ("copy");
\* x = d.copy() makes x a new dict with the items of d
DictAlias(object) == object

DictCopy(object) == "copy"

\* the caller's arguments after each write has assigned items through a
\* variable that refers to target; a list built with + is a new list, so
\* storing it is a write to the dict it is stored in
RECURSIVE Stores(_, _)
Stores(in, writes) ==
    IF writes = << >> THEN in
    ELSE Stores(IF writes[1].target = "copy" THEN in
                ELSE [in EXCEPT ![writes[1].target] = writes[1].items],
                Tail(writes))

\* a phase of the driver: its aggregator calls are appended and its writes
\* applied; run.in holds the caller's arguments as they are now
Phase(run, calls, writes) ==
    [ in |-> Stores(run.in, writes), calls |-> run.calls \o calls ]

\* pass k of the main loop, lines 376-434: perturbed and perturbed_metar
\* are copies (lines 84, 386) that lines 105-140 and 387-391 assign into
MainLoopPass(run, rng, k) ==
    LET scenario_type == ScenarioType(k - 1, run.in.num_draws)
        perturbed_conditions ==
            perturb_correlated_weather(run.in.base_conditions, scenario_type, rng.draws[k])
    IN  Phase(run, << DrawCall(run.in, scenario_type, perturbed_conditions) >>,
              << [ target |-> DictCopy("base_conditions"), items |-> perturbed_conditions ],
                 [ target |-> DictCopy("metar_data"),
                   items |-> PerturbedMetar(run.in.metar_data, perturbed_conditions) ] >>)

\* lines 375-434: the first k passes
RECURSIVE MainLoop(_, _, _)
MainLoop(in, rng, k) ==
    IF k = 0 THEN [ in |-> in, calls |-> << >> ]
    ELSE CHOOSE after \in { MainLoopPass(run, rng, k) :
                               run \in { MainLoop(in, rng, k - 1) } } : TRUE

\* lines 436-456
ExtremeCalls(in, extreme_scenarios) ==
    IF in.include_extremes
    THEN [ k \in 1..Len(extreme_scenarios) |->
             BasicCall(in, "extreme", extreme_scenarios[k].conditions,
                       UpdatedMetar(in.metar_data, extreme_scenarios[k].conditions),
                       extreme_scenarios[k].type) ]
    ELSE << >>

\* lines 459-479
TemporalCalls(in, temporal_scenarios) ==
    IF in.include_temporal
    THEN [ k \in 1..Len(temporal_scenarios) |->
             BasicCall(in, "temporal", temporal_scenarios[k].conditions,
                       UpdatedMetar(in.metar_data, temporal_scenarios[k].conditions),
                       [ time_offset |-> temporal_scenarios[k].time_offset,
                         confidence |-> temporal_scenarios[k].confidence ]) ]
    ELSE << >>

\* calculate_parameter_sensitivity, lines 293-341: the base call, then one
\* call per parameter of base_conditions with that parameter raised by its
\* delta (10 degrees, 5 kt, 5 kt, 3 C)
SensitivityCalls(in, base) ==
    << BasicCall(in, "sensitivity", base, in.metar_data, [param |-> "base", delta |-> 1]),
       BasicCall(in, "sensitivity", [base EXCEPT !.wind_dir = @ + 10], in.metar_data,
                 [param |-> "wind_dir", delta |-> 10]),
       BasicCall(in, "sensitivity", [base EXCEPT !.wind_speed = @ + 50], in.metar_data,
                 [param |-> "wind_speed", delta |-> 5]) >>
    \o (IF IsNone(base.wind_gust) THEN << >>
        ELSE << BasicCall(in, "sensitivity", [base EXCEPT !.wind_gust = Some(Val(@) + 50)],
                          in.metar_data, [param |-> "wind_gust", delta |-> 5]) >>)
    \o << [ BasicCall(in, "sensitivity", base,
                      [in.metar_data EXCEPT !.temp_c = Some(base.temp_c + 30)],
                      [param |-> "temp_c", delta |-> 3])
            EXCEPT !.conditions.temp_c = @ + 30 ] >>

\* the dicts a list of scenarios was built in (copies of base_conditions,
\* lines 153, 183-199) and the copies of metar_data updated with them
\* (lines 439-440, 464-465)
ScenarioWrites(in, scenarios) ==
    [ k \in 1..Len(scenarios) |->
        [ target |-> DictCopy("base_conditions"), items |-> scenarios[k].conditions ] ]
    \o [ k \in 1..Len(scenarios) |->
           [ target |-> DictCopy("metar_data"),
             items |-> UpdatedMetar(in.metar_data, scenarios[k].conditions) ] ]

\* lines 436-456
ExtremePhase(run, rng) ==
    LET extreme_scenarios == generate_extreme_scenarios(run.in.base_conditions, rng.extremes)
    IN  IF run.in.include_extremes
        THEN Phase(run, ExtremeCalls(run.in, extreme_scenarios),
                   ScenarioWrites(run.in, extreme_scenarios))
        ELSE run

\* lines 458-486
TemporalPhase(run, rng) ==
    LET temporal_scenarios ==
            generate_temporal_scenarios(run.in.base_conditions, 6, rng.temporal)
    IN  IF run.in.include_temporal
        THEN Phase(run, TemporalCalls(run.in, temporal_scenarios),
                   ScenarioWrites(run.in, temporal_scenarios))
        ELSE run

\* lines 497-499: perturbed_conditions is a copy (line 319) for each
\* parameter and new_metar a copy (line 323) for temp_c
SensitivityPhase(run) ==
    LET calls == SensitivityCalls(run.in, run.in.base_conditions)
    IN  Phase(run, calls,
              [ k \in 1..(Len(calls) - 1) |->
                  [ target |-> DictCopy("base_conditions"),
                    items |-> calls[k + 1].conditions ] ]
              \o << [ target |-> DictCopy("metar_data"),
                      items |-> calls[Len(calls)].a.metar_data ] >>)

\* the run after the four phases
Driver(in, rng) ==
    CHOOSE run \in
        { SensitivityPhase(temporal) :
            temporal \in { TemporalPhase(extreme, rng) :
                extreme \in { ExtremePhase(main, rng) :
                    main \in { MainLoop(in, rng, in.num_draws) } } } } : TRUE

\* the aggregator calls of a run in program order
AggregatorCalls(in, rng) == Driver(in, rng).calls

\* the caller's arguments when the call returns
ArgumentsAfter(in, rng) == Driver(in, rng).in

\* a call with its score
ScoredCall(call, now) ==
    [ call |-> call,
      rri |-> IF call.advanced THEN calculate_advanced_rri(call.a, now).score
              ELSE calculate_rri(call.a, now).score ]

Scored(calls, now) == [ k \in 1..Len(calls) |-> ScoredCall(calls[k], now) ]

OfKind(scored, kinds) == SelectSeq(scored, LAMBDA s : s.call.kind \in kinds)

\* the sensitivities as signed differences
SensitivityAnalysisSigned(sensitivity) ==
    [ param \in { sensitivity[k].call.info.param : k \in 2..Len(sensitivity) } |->
        LET perturbed == CHOOSE s \in { sensitivity[k] : k \in 2..Len(sensitivity) } :
                             s.call.info.param = param
        IN  (30 * (perturbed.rri - sensitivity[1].rri)) \div perturbed.call.info.delta ]

\* |perturbed_rri - base_rri| / delta, in thirtieths of a point per unit
\* (lines 343-344)
SensitivityAnalysis(sensitivity) ==
    [ param \in { sensitivity[k].call.info.param : k \in 2..Len(sensitivity) } |->
        LET perturbed == CHOOSE s \in { sensitivity[k] : k \in 2..Len(sensitivity) } :
                             s.call.info.param = param
        IN  (30 * Abs(perturbed.rri - sensitivity[1].rri)) \div perturbed.call.info.delta ]

\* lines 429-434
ScenarioDetails(draws) ==
    [ k \in 1..Len(draws) |->
        [ rri |-> draws[k].rri, conditions |-> draws[k].call.conditions,
          scenario_type |-> draws[k].call.info ] ]

\* lines 481-486
TemporalEvolution(temporal) ==
    [ k \in 1..Len(temporal) |->
        [ time_offset |-> temporal[k].call.info.time_offset, rri |-> temporal[k].rri,
          confidence |-> temporal[k].call.info.confidence,
          conditions |-> temporal[k].call.conditions ] ]

\* lines 492-495
ExtremeScenariosAnalysis(scenario_details, rri_samples) ==
    LET at_or_above == SelectSeq(scenario_details,
                                 LAMBDA s : 100 * s.rri >= Percentile(rri_samples, 95))
    IN  SubSeq(at_or_above, 1, Min(10, Len(at_or_above)))

\* lines 501-505
ConfidenceIntervals(percentiles) ==
    [ i \in {"90_percent", "80_percent", "50_percent"} |->
        CASE i = "90_percent" -> << percentiles["p05"], percentiles["p95"] >>
          [] i = "80_percent" -> << percentiles["p10"], percentiles["p90"] >>
          [] i = "50_percent" -> << percentiles["p25"], percentiles["p75"] >> ]

\* lines 488-522
ProbabilisticResult(in, scenario_details, rri_samples, temporal, sensitivity) ==
    LET percentiles == calculate_percentiles(rri_samples)
    IN  [ percentiles |-> percentiles,
          statistics |-> calculate_comprehensive_statistics(rri_samples),
          risk_distribution |-> analyze_risk_distribution(rri_samples),
          rri_samples |-> rri_samples,
          extreme_scenarios |-> ExtremeScenariosAnalysis(scenario_details, rri_samples),
          sensitivity_analysis |-> SensitivityAnalysis(sensitivity),
          confidence_intervals |-> ConfidenceIntervals(percentiles),
          scenario_clusters |->
              [ t \in {"normal", "deteriorating", "improving"} |->
                  SelectSeq(scenario_details, LAMBDA s : s.scenario_type = t) ],
          temporal_evolution |->
              IF in.include_temporal THEN Some(TemporalEvolution(temporal)) ELSE None ]

\* the result assembled with the temporal scores among the samples
AssembleWithTemporal(in, scored) ==
    LET samples == OfKind(scored, {"draw", "extreme", "temporal"})
    IN  ProbabilisticResult(in, ScenarioDetails(OfKind(scored, {"draw"})),
                            [ k \in 1..Len(samples) |-> samples[k].rri ],
                            OfKind(scored, {"temporal"}), OfKind(scored, {"sensitivity"}))

\* the result assembled from the scored calls
Assemble(in, scored) ==
    LET samples == OfKind(scored, {"draw", "extreme"})
    IN  ProbabilisticResult(in, ScenarioDetails(OfKind(scored, {"draw"})),
                            [ k \in 1..Len(samples) |-> samples[k].rri ],
                            OfKind(scored, {"temporal"}), OfKind(scored, {"sensitivity"}))

\* lines 348-524
calculate_advanced_probabilistic_rri(in, rng, now) ==
    CHOOSE result \in { Assemble(in, scored) :
                           scored \in { Scored(calls, now) :
                                        calls \in { AggregatorCalls(in, rng) } } } : TRUE

\* lines 526-556: the legacy two-field form
LegacyArguments(in) ==
    [ in EXCEPT
        !.base_conditions =
            [ wind_dir |-> in.base_conditions.wind_dir,
              wind_speed |-> in.base_conditions.wind_speed,
              wind_gust |-> Some(IF GetGust(in.base_conditions) > 0
                                 THEN GetGust(in.base_conditions) ELSE 0),
              temp_c |-> MetarTemp(in.metar_data),
              altim_in_hg |-> None, visibility |-> None, ceiling |-> None,
              weather |-> None ],
        !.include_temporal = FALSE,
        !.include_extremes = TRUE,
        !.runway_length = None,
        !.airport_elevation = None ]

LegacyForm(result) ==
    [ rri_p05 |-> result.percentiles["p05"], rri_p95 |-> result.percentiles["p95"] ]

calculate_probabilistic_rri_monte_carlo(in, rng, now) ==
    LegacyForm(calculate_advanced_probabilistic_rri(LegacyArguments(in), rng, now))

\* the wrapper passes metar_data on and builds base_conditions itself
\* (lines 542-551)
LegacyArgumentsAfter(in, rng) ==
    [ in EXCEPT !.metar_data = ArgumentsAfter(LegacyArguments(in), rng).metar_data ]

(***************************************************************************)
(* Inputs of the aggregator runs                                           *)
(***************************************************************************)
\* longest weather-code list of the severe-weather scenarios
MaxWx == 2

WxCodes == << "+TSRA", "VA", "FC", "LTG", "GR", "-FZRA", "-RA", "SN", "FG", "SHRA" >>

\* the weather-code lists of at most n codes, codes in table order
RECURSIVE WxListsFrom(_, _)
WxListsFrom(first, n) ==
    IF n = 0 THEN { << >> }
    ELSE { << >> } \cup
         UNION { { << WxCodes[i] >> \o rest : rest \in WxListsFrom(i + 1, n - 1) }
                 : i \in first..Len(WxCodes) }

WxLists == WxListsFrom(1, MaxWx)

\* the wall clocks of the runs: afternoon with the sun low ahead of the
\* runway, night, evening twilight
Clocks ==
    { [hour |-> 15, zenith |-> 15, angle_diff |-> 10],
      [hour |-> 3,  zenith |-> 120, angle_diff |-> 90],
      [hour |-> 20, zenith |-> 85, angle_diff |-> 10] }

Noon == [hour |-> 12, zenith |-> 40, angle_diff |-> 90]

\* [rwy_heading, wind_dir, wind_speed, wind_gust]: calm; 120 at 15 gusting
\* 22 on runway 09; a 25 kt tailwind gusting 40; a 15 kt direct crosswind
\* with a reported gust below the steady wind
WindCases ==
    { [rwy |-> 90, dir |-> 90,  speed |-> 0,   gust |-> 0],
      [rwy |-> 90, dir |-> 120, speed |-> 150, gust |-> 220],
      [rwy |-> 90, dir |-> 270, speed |-> 250, gust |-> 400],
      [rwy |-> 90, dir |-> 180, speed |-> 150, gust |-> 100] }

NotamIce == "NOTAM GGG RWY 09/27 ICE PATCHES BRAKING ACTION POOR UNTIL 1800Z"

NotamWorks == "notam ggg rwy 09/27 papi out of svc and construction crane 1nm east"

NotamHtml == "<HTML><TITLE>ERROR</TITLE> NOTAM SERVICE ICE UNAVAILABLE TRY LATER</HTML>"

NotamShort == "RWY 09 SLUSH"

MakeMetar(temp10, dewpoint, weather, ceiling, visibility, clouds) ==
    [ temp_c |-> Some(temp10), dewpoint_c |-> dewpoint, weather |-> weather,
      ceiling |-> ceiling, visibility |-> visibility, cloud_layers |-> clouds ]

\* the callers' preparation of an aggregator call: wind and gust components
\* from wind_components / gust_components
MakeArgs(w, da_diff, metar_data, position, notam_data, runway_length, terrain_factor, historical_trend) ==
    LET wc == wind_components(w.rwy, w.dir, w.speed)
        gc == gust_components(w.rwy, w.dir, w.gust)
    IN  [ head |-> wc.head, cross |-> wc.cross,
          gust_head |-> gc.head, gust_cross |-> gc.cross,
          wind_speed |-> w.speed, wind_gust |-> w.gust,
          is_head |-> wc.is_head, gust_is_head |-> gc.is_head,
          da_diff |-> da_diff, metar_data |-> metar_data,
          position |-> position, notam_data |-> notam_data,
          runway_length |-> runway_length, terrain_factor |-> terrain_factor,
          historical_trend |-> historical_trend ]

\* severe-weather scenarios: every weather list against ceilings,
\* visibilities, winds and a NOTAM
SevereScenarios ==
    { [ args |-> MakeArgs(w, da, MakeMetar(t, None, wx, c, v, << "BKN" >>),
                          None, n, None, 10, None),
        now |-> Noon ] :
      w \in { x \in WindCases : x.dir # 180 }, da \in {-300, 1918}, t \in {10, 280},
      wx \in WxLists, c \in {None, Some(400), Some(2500)},
      v \in {None, Some(50), Some(800)}, n \in {None, Some(NotamIce)} }

\* optional-input scenarios: dewpoint, position, runway length, terrain,
\* historical trend, at each wall clock
OptionalScenarios ==
    { [ args |-> MakeArgs(w, da, MakeMetar(t, d, wx, Some(2500), Some(800), << >>),
                          p, None, r, tf, h),
        now |-> c ] :
      w \in WindCases, da \in {600, 1918, 3500}, t \in {-150, 20, 280, 360},
      d \in {None, Some(15), Some(100)}, wx \in { << >>, << "RA" >> },
      p \in {None, Some([lat |-> 40, lon |-> -74])},
      r \in {None, Some(1800), Some(4500)}, tf \in {10, 11},
      h \in {None, Some([pressure_trend |-> -12, temp_trend |-> 40])},
      c \in Clocks }

\* NOTAM scenarios
NotamScenarios ==
    { [ args |-> MakeArgs(w, da, MakeMetar(150, None, wx, None, None, << >>),
                          None, n, r, 10, None),
        now |-> Noon ] :
      w \in { x \in WindCases : x.speed <= 150 }, da \in {0, 1918},
      wx \in { << >>, << "RA" >>, << "+TSRA" >> },
      n \in {None, Some(NotamIce), Some(NotamWorks), Some(NotamHtml), Some(NotamShort)},
      r \in {None, Some(2400), Some(4500)} }

Scenarios == SevereScenarios \cup OptionalScenarios \cup NotamScenarios

(***************************************************************************)
(* Inputs of the atmospheric, wind-geometry and rating runs                *)
(***************************************************************************)
\* [field_elev_ft, temp_c, altim_in_hg]; on every triple the double
\* evaluation of lines 294-296 and the exact evaluation truncate to the same
\* integer (where the exact value is a whole number the double can fall
\* just short of it, as for density_alt(0, 5, 28.85) = -129)
AtmosInputs ==
    { [field_elev_ft |-> e, temp_c |-> t, altim_in_hg |-> p] :
        e \in {433, 5280, 14010},
        t \in {-610, -600, -155, -23, 50, 150, 284, 455, 500, 505},
        p \in {2885, 2985, 2992, 3045} }
    \cup { [field_elev_ft |-> 1200, temp_c |-> 280, altim_in_hg |-> 2985] }

\* runway heading, wind direction relative to it, speed in tenths of a knot
WindInputs ==
    { [rwy |-> h, dir |-> h + off, speed |-> s] :
        h \in {0, 90, 185, 270, 355},
        off \in {0, 30, 90, 180, 270},
        s \in {0, 5, 75, 150, 255} }

(***************************************************************************)
(* Inputs of the Monte Carlo runs                                          *)
(***************************************************************************)
\* largest number of draws of a run
MaxDraws == 10

\* the values one pass of the main loop draws: np.random.normal for the
\* direction (degrees), speed, gust noise and temperature (tenths),
\* pressure, visibility and ceiling (hundredths); random.random (hundredths)
\* and random.uniform(3, 8) (tenths) for a synthesized gust
DrawTable ==
    << [ wind_dir |-> 0, wind_dir_tiny |-> -1, wind_speed |-> 0, gust_noise |-> 0,
         gust_chance |-> 50, gust_add |-> 50, temp |-> 0, pressure |-> 0,
         visibility |-> 0, ceiling |-> 0 ],
       [ wind_dir |-> 10, wind_dir_tiny |-> 0, wind_speed |-> 20, gust_noise |-> 10,
         gust_chance |-> 10, gust_add |-> 50, temp |-> 25, pressure |-> 2,
         visibility |-> -30, ceiling |-> -40 ],
       [ wind_dir |-> -20, wind_dir_tiny |-> 0, wind_speed |-> 60, gust_noise |-> -20,
         gust_chance |-> 90, gust_add |-> 30, temp |-> -50, pressure |-> -7,
         visibility |-> 15, ceiling |-> 20 ],
       [ wind_dir |-> 5, wind_dir_tiny |-> 0, wind_speed |-> -60, gust_noise |-> 0,
         gust_chance |-> 20, gust_add |-> 80, temp |-> 10, pressure |-> 0,
         visibility |-> -700, ceiling |-> -700 ] >>

\* the draws of generate_temporal_scenarios for the hours 1..6:
\* random.uniform(0.8, 1.3), random.uniform(0.7, 1.4), random.random
\* (hundredths)
TemporalDraws ==
    << [ wind |-> [num |-> 6, den |-> 5], gust |-> [num |-> 7, den |-> 5], fog_chance |-> 50 ],
       [ wind |-> [num |-> 4, den |-> 5], gust |-> [num |-> 7, den |-> 10], fog_chance |-> 15 ],
       [ wind |-> [num |-> 1, den |-> 1], gust |-> [num |-> 1, den |-> 1], fog_chance |-> 90 ],
       [ wind |-> [num |-> 5, den |-> 4], gust |-> [num |-> 6, den |-> 5], fog_chance |-> 30 ],
       [ wind |-> [num |-> 4, den |-> 5], gust |-> [num |-> 4, den |-> 5], fog_chance |-> 70 ],
       [ wind |-> [num |-> 6, den |-> 5], gust |-> [num |-> 7, den |-> 5], fog_chance |-> 59 ] >>

\* a seeded generator: the draws of the main loop, the three uniform draws
\* of generate_extreme_scenarios (tenths) and the temporal draws
Streams ==
    { [ draws |-> [ i \in 1..MaxDraws |-> DrawTable[((i + k) % Len(DrawTable)) + 1] ],
        extremes |-> [gust |-> 80, hot |-> 80, cold |-> 100],
        temporal |-> TemporalDraws ] :
      k \in 0..1 }

\* the observations the base conditions and the METAR record are built
\* from: 120 at 15 gusting 22, 28 C; a 20 kt wind without gust at 1 C in
\* fog; a 10 kt headwind at 48 C, no gust key, carrying its own weather list
Observations ==
    { [ wind_dir |-> 120, wind_speed |-> 150, wind_gust |-> Some(220), temp_c |-> 280,
        dewpoint_c |-> Some(220), altim_in_hg |-> Some(2985), visibility |-> Some(800),
        ceiling |-> Some(2500), weather |-> None ],
      [ wind_dir |-> 270, wind_speed |-> 200, wind_gust |-> Some(0), temp_c |-> 10,
        dewpoint_c |-> None, altim_in_hg |-> None, visibility |-> Some(50),
        ceiling |-> None, weather |-> None ],
      [ wind_dir |-> 90, wind_speed |-> 100, wind_gust |-> None, temp_c |-> 480,
        dewpoint_c |-> Some(100), altim_in_hg |-> Some(2992), visibility |-> None,
        ceiling |-> Some(800), weather |-> Some(<< "-RA" >>) ] }

\* 100 at 8 gusting 12: a wind that stays at or below 15 kt when multiplied
\* by 1.8.  Speeds are kept in tenths of a knot, which the perturbed draws
\* and the hourly evolutions of this observation do not fall on, so it is
\* run through the extreme scenarios and the sensitivity calls only.
LightGusting ==
    [ wind_dir |-> 100, wind_speed |-> 80, wind_gust |-> Some(120), temp_c |-> 150,
      dewpoint_c |-> Some(100), altim_in_hg |-> Some(3010), visibility |-> Some(1000),
      ceiling |-> None, weather |-> None ]

\* base_conditions as the callers build it
BaseConditions(b) ==
    [ wind_dir |-> b.wind_dir, wind_speed |-> b.wind_speed, wind_gust |-> b.wind_gust,
      temp_c |-> b.temp_c, altim_in_hg |-> b.altim_in_hg, visibility |-> b.visibility,
      ceiling |-> b.ceiling, weather |-> b.weather ]

\* the optional arguments of calculate_advanced_probabilistic_rri; the
\* first combination is the one the legacy wrapper passes
DriverDefaults ==
    [ include_extremes |-> TRUE, include_temporal |-> FALSE,
      runway_length |-> None, airport_elevation |-> None ]

DriverOptions ==
    { DriverDefaults,
      [ include_extremes |-> FALSE, include_temporal |-> FALSE,
        runway_length |-> None, airport_elevation |-> None ],
      [ include_extremes |-> TRUE, include_temporal |-> TRUE,
        runway_length |-> Some(4500), airport_elevation |-> Some(1200) ],
      [ include_extremes |-> TRUE, include_temporal |-> FALSE,
        runway_length |-> Some(4500), airport_elevation |-> Some(0) ],
      [ include_extremes |-> FALSE, include_temporal |-> TRUE,
        runway_length |-> None, airport_elevation |-> Some(1200) ] }

DriverInputs(b, wx, p, n, o) ==
    [ rwy_heading |-> 90, base_conditions |-> BaseConditions(b), da_diff |-> 1918,
      metar_data |-> MakeMetar(b.temp_c, b.dewpoint_c, wx, b.ceiling, b.visibility,
                               << "BKN" >>),
      position |-> p, num_draws |-> n,
      include_extremes |-> o.include_extremes, include_temporal |-> o.include_temporal,
      runway_length |-> o.runway_length, airport_elevation |-> o.airport_elevation ]

MonteCarloInputs ==
    { DriverInputs(b, wx, p, n, o) :
        b \in Observations,
        wx \in { << >>, << "+TSRA" >> },
        p \in {None, Some([lat |-> 40, lon |-> -74])},
        n \in {0, MaxDraws}, o \in DriverOptions }
    \cup
    { DriverInputs(LightGusting, << >>, p, 0, o) :
        p \in {None, Some([lat |-> 40, lon |-> -74])},
        o \in { x \in DriverOptions : x.include_extremes /\ ~x.include_temporal } }

\* the arguments the legacy wrapper can be given
LegacyInputs ==
    { i \in MonteCarloInputs :
        /\ [ f \in DOMAIN DriverDefaults |-> i[f] ] = DriverDefaults
        /\ ~IsNone(i.base_conditions.wind_gust) /\ IsNone(i.base_conditions.weather) }

(***************************************************************************)
(* Inputs of the perturbation runs                                         *)
(***************************************************************************)
\* a calm report at the visibility and ceiling floors; 120 at 15 gusting
\* 22; 350 at 20 kt without a gust key; 270 at 3 kt with a gust of 0
PerturbBases ==
    { [ wind_dir |-> 0, wind_speed |-> 0, wind_gust |-> Some(0), temp_c |-> 150,
        altim_in_hg |-> Some(2992), visibility |-> Some(25), ceiling |-> Some(100),
        weather |-> None ],
      [ wind_dir |-> 120, wind_speed |-> 150, wind_gust |-> Some(220), temp_c |-> 280,
        altim_in_hg |-> Some(2985), visibility |-> Some(800), ceiling |-> Some(2500),
        weather |-> None ],
      [ wind_dir |-> 350, wind_speed |-> 200, wind_gust |-> None, temp_c |-> -50,
        altim_in_hg |-> None, visibility |-> None, ceiling |-> Some(300),
        weather |-> Some(<< "SN" >>) ],
      [ wind_dir |-> 270, wind_speed |-> 30, wind_gust |-> Some(0), temp_c |-> 10,
        altim_in_hg |-> Some(3050), visibility |-> Some(50), ceiling |-> None,
        weather |-> None ] }

\* draws within and beyond the clip bounds; the visibility and ceiling
\* draws reach below the factor floor of 0.1
PerturbDraws ==
    { [ wind_dir |-> dir.whole, wind_dir_tiny |-> dir.tiny, wind_speed |-> speed,
        gust_noise |-> speed \div 3, gust_chance |-> gust.chance, gust_add |-> gust.add,
        temp |-> -speed, pressure |-> speed \div 10,
        visibility |-> factor, ceiling |-> -factor - 300 ] :
      dir \in { [whole |-> -20, tiny |-> 0], [whole |-> 0, tiny |-> 0],
                [whole |-> 0, tiny |-> -1], [whole |-> 0, tiny |-> 1],
                [whole |-> 10, tiny |-> 0] },
      speed \in {-90, -20, 0, 60},
      gust \in { [chance |-> 10, add |-> 30], [chance |-> 90, add |-> 80] },
      factor \in {-700, -30, 40} }

(***************************************************************************)
(* State                                                                   *)
(***************************************************************************)
VARIABLES
    pc,         \* position of the caller
    clock,      \* the wall clock (datetime.utcnow and the sun it implies)
    args,       \* arguments of the aggregator calls
    basic,      \* None, or the (score, contributors) calculate_rri returned
    advanced,   \* None, or what calculate_advanced_rri returned
    atmos,      \* density-altitude run: inputs and None or results
    wind,       \* wind-geometry run: inputs and None or results
    rating,     \* rating run: two scores and None or their category, status
    mc,         \* Monte Carlo runs: arguments, generator, results so far
    perturb,    \* perturbation run: base, regime, draws and None or the result
    distribution, \* risk-distribution run: samples and None or the result
    factors,    \* factor-library run: inputs and None or the scores
    selection   \* extreme-scenario selection: details, samples, None or the list

vars ==
    << pc, clock, args, basic, advanced, atmos, wind, rating, mc,
       perturb, distribution, factors, selection >>

aggVars == << clock, args, basic, advanced >>

Idle == << >>

AggIdle == clock = Idle /\ args = Idle /\ basic = None /\ advanced = None

pureVars == << perturb, distribution, factors, selection >>

PureIdle ==
    perturb = Idle /\ distribution = Idle /\ factors = Idle /\ selection = Idle

(***************************************************************************)
(* The caller of demonstrate_basic_vs_advanced: one argument set, scored   *)
(* by calculate_rri and then by calculate_advanced_rri.                    *)
(***************************************************************************)
Init ==
    /\ pc = "start"
    /\ \E s \in Scenarios : args = s.args /\ clock = s.now
    /\ basic = None
    /\ advanced = None
    /\ atmos = Idle /\ wind = Idle /\ rating = Idle /\ mc = Idle /\ PureIdle

CalculateRri ==
    /\ pc = "start"
    /\ basic' = Some(calculate_rri(args, clock))
    /\ pc' = "basic"
    /\ UNCHANGED << clock, args, advanced, atmos, wind, rating, mc, pureVars >>

CalculateAdvancedRri ==
    /\ pc = "basic"
    /\ advanced' = Some(calculate_advanced_rri(args, clock))
    /\ pc' = "done"
    /\ UNCHANGED << clock, args, basic, atmos, wind, rating, mc, pureVars >>

Next == CalculateRri \/ CalculateAdvancedRri

Spec == Init /\ [][Next]_vars

(***************************************************************************)
(* Density altitude and its differential, as the callers compute them      *)
(* (advanced_usage_example.py lines 51-52).                                *)
(***************************************************************************)
InitAtmos ==
    /\ pc = "start"
    /\ \E i \in AtmosInputs : atmos = [in |-> i, da |-> None, da_diff |-> None]
    /\ AggIdle /\ wind = Idle /\ rating = Idle /\ mc = Idle /\ PureIdle

DensityAlt ==
    /\ pc = "start"
    /\ LET da == density_alt(atmos.in.field_elev_ft, atmos.in.temp_c, atmos.in.altim_in_hg)
       IN  atmos' = [atmos EXCEPT !.da = Some(da),
                                  !.da_diff = Some(da - atmos.in.field_elev_ft)]
    /\ pc' = "done"
    /\ UNCHANGED << aggVars, wind, rating, mc, pureVars >>

NextAtmos == DensityAlt

SpecAtmos == InitAtmos /\ [][NextAtmos]_vars

(***************************************************************************)
(* Wind geometry: steady wind and gust resolved for the same direction.    *)
(***************************************************************************)
InitWind ==
    /\ pc = "start"
    /\ \E i \in WindInputs : wind = [in |-> i, wc |-> None, gc |-> None]
    /\ AggIdle /\ atmos = Idle /\ rating = Idle /\ mc = Idle /\ PureIdle

WindComponents ==
    /\ pc = "start"
    /\ wind' = [wind EXCEPT
                  !.wc = Some(wind_components(wind.in.rwy, wind.in.dir, wind.in.speed)),
                  !.gc = Some(gust_components(wind.in.rwy, wind.in.dir, wind.in.speed))]
    /\ pc' = "done"
    /\ UNCHANGED << aggVars, atmos, rating, mc, pureVars >>

NextWind == WindComponents

SpecWind == InitWind /\ [][NextWind]_vars

(***************************************************************************)
(* Rating: category and status of two scores lo <= hi.                     *)
(***************************************************************************)
InitRating ==
    /\ pc = "start"
    /\ \E lo \in 0..100 : \E hi \in lo..100 :
           rating = [lo |-> lo, hi |-> hi, category |-> None, status |-> None]
    /\ AggIdle /\ atmos = Idle /\ wind = Idle /\ mc = Idle /\ PureIdle

Rate ==
    /\ pc = "start"
    /\ rating' = [rating EXCEPT
                    !.category = Some(<< get_rri_category(rating.lo),
                                         get_rri_category(rating.hi) >>),
                    !.status = Some(<< get_status_from_rri(rating.lo),
                                       get_status_from_rri(rating.hi) >>)]
    /\ pc' = "done"
    /\ UNCHANGED << aggVars, atmos, wind, mc, pureVars >>

NextRating == Rate

SpecRating == InitRating /\ [][NextRating]_vars

(***************************************************************************)
(* Monte Carlo: the same arguments and the same seeded generator, run      *)
(* twice through one entry point, the wall clock moving between the runs.  *)
(* mc.in holds the caller's arguments as they are now, mc.before as they   *)
(* were before the first call, mc.calls the aggregator calls the last run   *)
(* made, in program order.                                                 *)
(***************************************************************************)
InitMonteCarlo ==
    /\ pc = "start"
    /\ \E e \in {"advanced", "legacy"}, r \in Streams :
         \E i \in (IF e = "legacy" THEN LegacyInputs ELSE MonteCarloInputs) :
           mc = [in |-> i, rng |-> r, entry |-> e, runs |-> << >>, before |-> i,
                 calls |-> << >>]
    /\ clock \in Clocks
    /\ args = Idle /\ basic = None /\ advanced = None
    /\ atmos = Idle /\ wind = Idle /\ rating = Idle /\ PureIdle

CalculateAdvancedProbabilisticRri ==
    /\ pc \in {"start", "again"}
    /\ mc.entry = "advanced"
    /\ mc' = [mc EXCEPT
                 !.runs = Append(@, calculate_advanced_probabilistic_rri(mc.in, mc.rng, clock)),
                 !.in = ArgumentsAfter(mc.in, mc.rng),
                 !.calls = AggregatorCalls(mc.in, mc.rng)]
    /\ pc' = IF pc = "start" THEN "again" ELSE "done"
    /\ UNCHANGED << aggVars, atmos, wind, rating, pureVars >>

CalculateProbabilisticRriMonteCarlo ==
    /\ pc \in {"start", "again"}
    /\ mc.entry = "legacy"
    /\ mc' = [mc EXCEPT
                 !.runs = Append(@, calculate_probabilistic_rri_monte_carlo(mc.in, mc.rng, clock)),
                 !.in = LegacyArgumentsAfter(mc.in, mc.rng),
                 !.calls = AggregatorCalls(LegacyArguments(mc.in), mc.rng)]
    /\ pc' = IF pc = "start" THEN "again" ELSE "done"
    /\ UNCHANGED << aggVars, atmos, wind, rating, pureVars >>

\* datetime.utcnow() returns a later time in the second run
ClockAdvances ==
    /\ pc = "again"
    /\ \E now \in Clocks \ {clock} : clock' = now
    /\ UNCHANGED << pc, args, basic, advanced, atmos, wind, rating, mc, pureVars >>

NextMonteCarlo ==
    \/ CalculateAdvancedProbabilisticRri
    \/ CalculateProbabilisticRriMonteCarlo
    \/ ClockAdvances

SpecMonteCarlo == InitMonteCarlo /\ [][NextMonteCarlo]_vars

(***************************************************************************)
(* Risk distribution: one population of integer scores analysed.           *)
(***************************************************************************)
MaxSamples == 3

\* the scores on either side of every boundary of the two mappings
BoundaryScores == {0, 25, 26, 50, 51, 75, 76, 100}

\* the non-empty populations of at most MaxSamples scores
RECURSIVE Populations(_)
Populations(n) ==
    IF n = 0 THEN {}
    ELSE [ 1..n -> BoundaryScores ] \cup Populations(n - 1)

InitDistribution ==
    /\ pc = "start"
    /\ \E samples \in Populations(MaxSamples) :
          distribution = [ samples |-> samples, result |-> None ]
    /\ AggIdle /\ atmos = Idle /\ wind = Idle /\ rating = Idle /\ mc = Idle
    /\ perturb = Idle /\ factors = Idle /\ selection = Idle

AnalyzeRiskDistribution ==
    /\ pc = "start"
    /\ distribution' = [ distribution EXCEPT !.result =
                            Some(analyze_risk_distribution(distribution.samples)) ]
    /\ pc' = "done"
    /\ UNCHANGED << aggVars, atmos, wind, rating, mc, perturb, factors, selection >>

NextDistribution == AnalyzeRiskDistribution

SpecDistribution == InitDistribution /\ [][NextDistribution]_vars

(***************************************************************************)
(* Factor library: every factor function and the wind and density terms    *)
(* of the aggregators applied to one set of inputs.                        *)
(***************************************************************************)
NotamAll == "NOTAM GGG RWY 09/27 SNOW AND ICE, ILS OUT OF SERVICE, CONSTRUCTION NEAR THR 09"

\* inputs chosen on both sides of the tests of every factor, with the
\* combinations in which several branches of one factor fire together
FactorInputs ==
    [ temp10 : {-250, 10, 220, 360},
      spread10 : {None, Some(20), Some(160)},
      time_of_day : {"midday", "early_morning"},
      wind_dir : {270, 180},
      wind_speed10 : {0, 260},
      wind_gust10 : {0, 600},
      terrain10 : {10, 25},
      da_diff : {0, 3500},
      runway_length : {None, Some(1800)},
      weather : {<< >>, << "+GR", "+FZRA", "+TSRA", "PL", "SHRA" >>,
                 << "-RA" >>, << "FZRA" >>, << "TSRA" >>, << "-SN", "+SN" >>},
      notam_data : {None, Some(NotamAll)},
      historical_trend : {None, Some([pressure_trend |-> -20, temp_trend |-> 40])} ]

FactorDewpoint(in) ==
    IF IsNone(in.spread10) THEN None ELSE Some(in.temp10 - Val(in.spread10))

FactorMetar(in) ==
    [ weather |-> in.weather, cloud_layers |-> << "OVC" >>, dewpoint_c |-> FactorDewpoint(in) ]

\* the wind arguments of an aggregator call on runway 09
FactorWind(in) ==
    LET wc == wind_components(90, in.wind_dir, in.wind_speed10)
        gc == gust_components(90, in.wind_dir, in.wind_gust10)
    IN  [ head |-> wc.head, cross |-> wc.cross, is_head |-> wc.is_head,
          gust_head |-> gc.head, gust_cross |-> gc.cross, gust_is_head |-> gc.is_head,
          wind_speed |-> in.wind_speed10, wind_gust |-> in.wind_gust10,
          da_diff |-> in.da_diff ]

FactorScores(in) ==
    [ thermal_gradient |->
          calculate_thermal_gradient_risk(in.temp10, FactorDewpoint(in), in.time_of_day),
      atmospheric_stability |->
          calculate_stability_index(in.temp10, FactorDewpoint(in), in.wind_speed10),
      runway_performance |->
          calculate_runway_performance_risk(in.runway_length, in.da_diff, "ice"),
      precipitation_intensity |-> calculate_precipitation_intensity_risk(in.weather),
      turbulence |-> calculate_turbulence_risk(in.wind_speed10, in.wind_gust10, in.terrain10),
      icing_conditions |-> calculate_icing_risk(in.temp10, FactorMetar(in)),
      temperature_performance |->
          calculate_temperature_performance_risk(in.temp10, in.da_diff),
      wind_shear |-> calculate_wind_shear_risk(FactorMetar(in)),
      notam_risks |-> parse_notam_risks(in.notam_data),
      trend |-> calculate_trend_risk([temp_c |-> Some(in.temp10)], in.historical_trend, 15),
      terms |-> WindAndDensityTerms(Start, FactorWind(in)).contributors ]

InitFactors ==
    /\ pc = "start"
    /\ \E in \in FactorInputs : factors = [ in |-> in, scores |-> None ]
    /\ AggIdle /\ atmos = Idle /\ wind = Idle /\ rating = Idle /\ mc = Idle
    /\ perturb = Idle /\ distribution = Idle /\ selection = Idle

CalculateFactors ==
    /\ pc = "start"
    /\ factors' = [ factors EXCEPT !.scores = Some(FactorScores(factors.in)) ]
    /\ pc' = "done"
    /\ UNCHANGED << aggVars, atmos, wind, rating, mc, perturb, distribution, selection >>

NextFactors == CalculateFactors

SpecFactors == InitFactors /\ [][NextFactors]_vars

(***************************************************************************)
(* Extreme-scenario selection: lines 492-495 applied to the details of the *)
(* main-loop draws and the sample population (the draws' scores followed   *)
(* by the scores of the extreme scenarios).  A detail carries its draw     *)
(* index, which stands for the identity of the scenario dict.              *)
(***************************************************************************)
MaxDetails == 21

\* a run of draws that all score low except the draw at position high_at
DetailsWith(n, low, high, high_at) ==
    [ k \in 1..n |-> [ rri |-> IF k = high_at THEN high ELSE low,
                       scenario_type |-> ScenarioType(k - 1, n), draw |-> k ] ]

\* the scores of the extreme scenarios appended to the population: none
\* (include_extremes false) or four
ExtremeSamples == { << >>, << 0, 0, 0, 0 >>, << 100, 25, 30, 70 >> }

InitSelection ==
    /\ pc = "start"
    /\ \E n \in {1, 11, MaxDetails}, low \in {0, 20}, high \in {20, 45, 100},
          extremes \in ExtremeSamples :
          \E high_at \in 1..n :
             LET details == DetailsWith(n, low, high, high_at)
             IN  selection = [ scenario_details |-> details,
                               rri_samples |-> [ k \in 1..n |-> details[k].rri ] \o extremes,
                               result |-> None ]
    /\ AggIdle /\ atmos = Idle /\ wind = Idle /\ rating = Idle /\ mc = Idle
    /\ perturb = Idle /\ distribution = Idle /\ factors = Idle

SelectExtremeScenarios ==
    /\ pc = "start"
    /\ selection' = [ selection EXCEPT !.result =
                         Some(ExtremeScenariosAnalysis(selection.scenario_details,
                                                       selection.rri_samples)) ]
    /\ pc' = "done"
    /\ UNCHANGED << aggVars, atmos, wind, rating, mc, perturb, distribution, factors >>

NextSelection == SelectExtremeScenarios

SpecSelection == InitSelection /\ [][NextSelection]_vars

(***************************************************************************)
(* Perturbation: one base observation perturbed under one regime.          *)
(***************************************************************************)
InitPerturb ==
    /\ pc = "start"
    /\ \E base \in PerturbBases, d \in PerturbDraws,
          scenario_type \in {"normal", "deteriorating", "improving"} :
          perturb = [ base_conditions |-> base, scenario_type |-> scenario_type,
                      d |-> d, perturbed |-> None ]
    /\ AggIdle /\ atmos = Idle /\ wind = Idle /\ rating = Idle /\ mc = Idle
    /\ distribution = Idle /\ factors = Idle /\ selection = Idle

PerturbCorrelatedWeather ==
    /\ pc = "start"
    /\ perturb' = [ perturb EXCEPT !.perturbed =
                       Some(perturb_correlated_weather(perturb.base_conditions,
                                                       perturb.scenario_type, perturb.d)) ]
    /\ pc' = "done"
    /\ UNCHANGED << aggVars, atmos, wind, rating, mc, distribution, factors, selection >>

NextPerturb == PerturbCorrelatedWeather

SpecPerturb == InitPerturb /\ [][NextPerturb]_vars

(***************************************************************************)
(* Properties                                                              *)
(***************************************************************************)
Basic == Val(basic)

Advanced == Val(advanced)

\* the sum of the "score" fields of a returned contributor map
ContributorSum(result) == SumScores(result.contributors, DOMAIN result.contributors)

HasOverrideCode(weather) ==
    AnyContains("TS", weather) \/ AnyContains("VA", weather) \/ AnyContains("FC", weather)

\* C1: calculate_rri and calculate_advanced_rri return a whole score
\* between 0 and 100 for every argument combination.
C1_ScoreInRange ==
    /\ basic # None => Basic.score \in 0..100
    /\ advanced # None => Advanced.score \in 0..100

\* both aggregators accumulated more than 100 points without any override
C1_Witness ==
    /\ pc = "done"
    /\ ~HasOverrideCode(args.metar_data.weather)
    /\ ContributorSum(Basic) > Pts(100) /\ Basic.score = 100
    /\ ContributorSum(Advanced) > Pts(100) /\ Advanced.score = 100

\* C2: a thunderstorm, volcanic-ash or funnel-cloud code forces the score
\* of both aggregators to exactly 100, whatever the other inputs.
C2_OverrideForces100 ==
    /\ basic # None /\ HasOverrideCode(args.metar_data.weather) => Basic.score = 100
    /\ advanced # None /\ HasOverrideCode(args.metar_data.weather) => Advanced.score = 100

\* a funnel cloud alone (reached only behind the total < 100 guard), with
\* NOTAM data and an amplification entry
C2_Witness ==
    /\ pc = "done"
    /\ AnyContains("FC", args.metar_data.weather)
    /\ ~AnyContains("TS", args.metar_data.weather)
    /\ ~AnyContains("VA", args.metar_data.weather)
    /\ args.notam_data # None
    /\ "funnel_cloud" \in DOMAIN Advanced.contributors
    /\ "risk_amplification" \in DOMAIN Advanced.contributors
    /\ Basic.score = 100 /\ Advanced.score = 100

\* C3: without an override code the returned total is round(min(100, S)),
\* S the sum of all contributor scores, also when the total < 100 guards
\* skipped severe-weather terms.
C3_TotalIsClampedSum ==
    /\ basic # None /\ ~HasOverrideCode(args.metar_data.weather)
         => Basic.score = RoundHalfEven(Min(Pts(100), ContributorSum(Basic)), Pts(1))
    /\ advanced # None /\ ~HasOverrideCode(args.metar_data.weather)
         => Advanced.score = RoundHalfEven(Min(Pts(100), ContributorSum(Advanced)), Pts(1))

\* no override; the guard skipped the low-ceiling term of the advanced run,
\* whose fractional sum includes an amplification entry, and the
\* low-visibility term of the basic run
C3_Witness ==
    /\ pc = "done"
    /\ ~HasOverrideCode(args.metar_data.weather)
    /\ args.metar_data.ceiling = Some(400)
    /\ "low_ceiling" \notin DOMAIN Advanced.contributors
    /\ "risk_amplification" \in DOMAIN Advanced.contributors
    /\ ContributorSum(Advanced) % Pts(1) # 0
    /\ "low_ceiling" \in DOMAIN Basic.contributors
    /\ "low_visibility" \notin DOMAIN Basic.contributors
    /\ args.metar_data.visibility = Some(50)

\* C4: every entry of a returned contributor map has a score above 0.
C4_EntriesPositive ==
    /\ basic # None => \A k \in DOMAIN Basic.contributors : Basic.contributors[k] > 0
    /\ advanced # None => \A k \in DOMAIN Advanced.contributors : Advanced.contributors[k] > 0

\* a reported gust below the steady wind: the differential is negative and
\* has no entry
C4_Witness ==
    /\ pc = "done"
    /\ args.wind_gust > 0 /\ args.wind_gust < args.wind_speed
    /\ "gust_differential" \notin DOMAIN Basic.contributors
    /\ "gust_differential" \notin DOMAIN Advanced.contributors
    /\ "gust_crosswind" \in DOMAIN Basic.contributors

CategoryRank(category) ==
    CASE category = "LOW" -> 0 [] category = "MODERATE" -> 1
      [] category = "HIGH" -> 2 [] category = "EXTREME" -> 3

StatusRank(status) ==
    CASE status = "GOOD" -> 0 [] status = "CAUTION" -> 1 [] status = "NO-GO" -> 2

IsKgggScenario(a) ==
    /\ a.head = 13 /\ a.cross = 7 /\ a.is_head
    /\ a.wind_speed = 150 /\ a.wind_gust = 220
    /\ a.da_diff = density_alt(1200, 280, 2985) - 1200
    /\ a.metar_data.temp_c = Some(280)
    /\ a.metar_data.weather = << "RA" >>
    /\ a.metar_data.ceiling = Some(2500)
    /\ a.metar_data.visibility = Some(800)
    /\ a.position = None

\* C6: at the same clock time the advanced score is at least the basic
\* score for identical arguments, and the two differ in the KGGG scenario.
C6_AdvancedAtLeastBasic ==
    pc = "done" =>
        /\ Advanced.score >= Basic.score
        /\ IsKgggScenario(args) => Advanced.score # Basic.score

C6_Witness ==
    /\ pc = "done"
    /\ IsKgggScenario(args)
    /\ Basic.score = 72 /\ Advanced.score = 100

\* 100 * (elev + (29.92 - altim) * 1000 + 120 * (temp - (15 - 2 * elev / 1000)))
DensityAltitudeFormula100(i) ==
    124 * i.field_elev_ft + 1000 * (2992 - i.altim_in_hg) + 1200 * i.temp_c - 180000

WithinSanityBounds(i) ==
    /\ i.temp_c >= -600 /\ i.temp_c <= 500
    /\ Trunc(DensityAltitudeFormula100(i), 100) >= -1000
    /\ Trunc(DensityAltitudeFormula100(i), 100) <= 20000

\* C7: within the sanity bounds density_alt is the truncation of
\* elev + (29.92 - altim) * 1000 + 120 * (temp - (15 - 2 * elev / 1000));
\* density_alt(1200, 28, 29.85) = 3118 and the differential is 1918.
C7_DensityAltitudeFormula ==
    atmos # Idle /\ atmos.da # None =>
        /\ WithinSanityBounds(atmos.in)
             => /\ Val(atmos.da) = Trunc(DensityAltitudeFormula100(atmos.in), 100)
                /\ Val(atmos.da_diff) = Val(atmos.da) - atmos.in.field_elev_ft
        /\ atmos.in = [field_elev_ft |-> 1200, temp_c |-> 280, altim_in_hg |-> 2985]
             => Val(atmos.da) = 3118 /\ Val(atmos.da_diff) = 1918

\* a fractional negative density altitude, where truncation and floor differ
C7_Witness ==
    /\ pc = "done" /\ atmos # Idle
    /\ WithinSanityBounds(atmos.in)
    /\ DensityAltitudeFormula100(atmos.in) < 0
    /\ DensityAltitudeFormula100(atmos.in) % 100 # 0
    /\ Val(atmos.da) < 0

\* C8: density_alt returns 0 when the temperature is outside -60..50 C or
\* the computed value is outside -1000..20000 ft, so every returned value is
\* 0 or within -1000..20000.
C8_DensityAltitudeSentinel ==
    atmos # Idle /\ atmos.da # None =>
        /\ ~WithinSanityBounds(atmos.in) => Val(atmos.da) = 0
        /\ Val(atmos.da) = 0 \/ Val(atmos.da) \in -1000..20000

\* temperature in range, computed density altitude above 20000 ft
C8_Witness ==
    /\ pc = "done" /\ atmos # Idle
    /\ atmos.in.temp_c \in -600..500
    /\ Trunc(DensityAltitudeFormula100(atmos.in), 100) > 20000
    /\ Val(atmos.da) = 0

\* the (headwind, crosswind, is_headwind) triple of a whole wind speed
Aligned(speed10, is_head) ==
    [head |-> speed10 \div 10, cross |-> 0, is_head |-> is_head]

\* C9 as claimed: for every heading h and speed s >= 0,
\* wind_components(h, h, s) = (s, 0, true) and
\* wind_components(h, h + 180, s) = (s, 0, false); gust_components the same.
C9_AlignedWindAsClaimed ==
    wind # Idle /\ wind.wc # None =>
        /\ wind.in.dir = wind.in.rwy =>
             /\ 10 * Val(wind.wc).head = wind.in.speed
             /\ Val(wind.wc).cross = 0 /\ Val(wind.wc).is_head
        /\ wind.in.dir = wind.in.rwy + 180 =>
             /\ 10 * Val(wind.wc).head = wind.in.speed
             /\ Val(wind.wc).cross = 0 /\ ~Val(wind.wc).is_head
        /\ Val(wind.gc) = Val(wind.wc)

\* C9 amended: wind_components(h, h, s) = (round(s), 0, true) and
\* wind_components(h, h + 180, s) = (round(s), 0, s = 0), round() rounding
\* halves to even: (s, 0, true) and (s, 0, false) for a whole s > 0, and
\* (0, 0, true) in both directions for a calm wind; gust_components the same.
C9_AlignedWind ==
    wind # Idle /\ wind.wc # None =>
        /\ wind.in.dir = wind.in.rwy =>
             Val(wind.wc) = [head |-> RoundHalfEven(wind.in.speed, 10), cross |-> 0,
                             is_head |-> TRUE]
        /\ wind.in.dir = wind.in.rwy + 180 =>
             Val(wind.wc) = [head |-> RoundHalfEven(wind.in.speed, 10), cross |-> 0,
                             is_head |-> (wind.in.speed = 0)]
        /\ wind.in.dir \in {wind.in.rwy, wind.in.rwy + 180} /\ wind.in.speed % 10 = 0
             /\ wind.in.speed > 0
             => Val(wind.wc) = Aligned(wind.in.speed, wind.in.dir = wind.in.rwy)
        /\ Val(wind.gc) = Val(wind.wc)

\* a 15 kt wind from directly behind, the direction wrapping past 360
C9_Witness ==
    /\ pc = "done" /\ wind # Idle
    /\ wind.in.rwy = 270 /\ wind.in.dir = 450 /\ wind.in.speed = 150
    /\ Val(wind.wc) = [head |-> 15, cross |-> 0, is_head |-> FALSE]
    /\ Val(wind.gc) = Val(wind.wc)

\* the percentile outputs of a run: the percentile map, or the legacy pair
PercentileOutputs(run) ==
    IF mc.entry = "advanced" THEN run.percentiles ELSE run

\* C10: two runs with the same arguments and the same seeded sequence of
\* random draws return identical percentile outputs.
C10_SeededRunsAgree ==
    pc = "done" /\ mc # Idle =>
        PercentileOutputs(mc.runs[1]) = PercentileOutputs(mc.runs[2])

\* the runs of the advanced entry point on an empty sample population
EmptyPopulationRuns ==
    IF mc # Idle /\ mc.entry = "advanced" /\ mc.in.num_draws = 0 /\ ~mc.in.include_extremes
    THEN { mc.runs[k] : k \in 1..Len(mc.runs) } ELSE {}

\* C11: on an empty sample population (num_draws = 0, include_extremes
\* false) the call completes; every percentile is null, the statistics and
\* the risk distribution have no fields and every confidence-interval bound
\* is null.
C11_EmptyPopulation ==
    \A run \in EmptyPopulationRuns :
        /\ DOMAIN run.percentiles
               = {"p01", "p05", "p10", "p25", "p50", "p75", "p90", "p95", "p99"}
        /\ \A label \in DOMAIN run.percentiles : run.percentiles[label] = None
        /\ run.statistics = NoFields
        /\ run.risk_distribution = NoFields
        /\ \A i \in DOMAIN run.confidence_intervals :
               run.confidence_intervals[i] = << None, None >>
        /\ run.rri_samples = << >>

C11_Witness ==
    /\ pc = "done"
    /\ EmptyPopulationRuns # {}
    /\ mc.in.include_temporal
    /\ Len(Val(mc.runs[2].temporal_evolution)) = 6

\* the 0-based draw indices a regime is scheduled for
ScheduledIndices(regime, n) ==
    { i \in 0..(n - 1) :
        CASE regime = "deteriorating" -> 10 * i < n
          [] regime = "improving" -> 10 * i >= n /\ 10 * i < 2 * n
          [] regime = "normal" -> 10 * i >= 2 * n }

\* the j-th smallest element of a set of numbers
RECURSIVE Nth(_, _)
Nth(indices, j) ==
    LET least == CHOOSE i \in indices : \A other \in indices : i <= other
    IN  IF j = 1 THEN least ELSE Nth(indices \ {least}, j - 1)

AdvancedRuns ==
    IF mc # Idle /\ mc.entry = "advanced"
    THEN { mc.runs[k] : k \in 1..Len(mc.runs) } ELSE {}

\* C12: draw i of N is deteriorating iff i < 0.1 N, improving iff
\* 0.1 N <= i < 0.2 N and normal otherwise, whatever the random draws; each
\* cluster of scenario_clusters holds, in order, exactly the draws scheduled
\* for its regime, perturbed with that regime, and the cluster sizes sum
\* to N.
C12_RegimeSchedule ==
    \A run \in AdvancedRuns :
        /\ DOMAIN run.scenario_clusters = {"normal", "deteriorating", "improving"}
        /\ \A regime \in DOMAIN run.scenario_clusters :
              LET cluster == run.scenario_clusters[regime]
                  indices == ScheduledIndices(regime, mc.in.num_draws)
              IN  /\ Len(cluster) = Cardinality(indices)
                  /\ \A j \in 1..Len(cluster) :
                        /\ cluster[j].scenario_type = regime
                        /\ cluster[j].conditions =
                              perturb_correlated_weather(mc.in.base_conditions, regime,
                                                         mc.rng.draws[Nth(indices, j) + 1])
        /\ Len(run.scenario_clusters["normal"]) + Len(run.scenario_clusters["deteriorating"])
             + Len(run.scenario_clusters["improving"]) = mc.in.num_draws

C12_Witness ==
    /\ pc = "done"
    /\ AdvancedRuns # {}
    /\ mc.in.num_draws = MaxDraws
    /\ \A regime \in {"normal", "deteriorating", "improving"} :
          mc.runs[2].scenario_clusters[regime] # << >>

\* C13: for a base observation with wind_speed >= 0, any regime and any
\* draws, the perturbed observation has wind_speed >= 0, 0 <= wind_dir < 360,
\* visibility >= 0.25 SM when present and ceiling >= 100 ft when present.
C13_PerturbedInRange ==
    perturb # Idle /\ ~IsNone(perturb.perturbed) /\ perturb.base_conditions.wind_speed >= 0 =>
        LET perturbed == Val(perturb.perturbed)
        IN  /\ perturbed.wind_speed >= 0
            /\ 0 <= perturbed.wind_dir /\ perturbed.wind_dir < 360
            /\ ~IsNone(perturbed.visibility) => Val(perturbed.visibility) >= 25
            /\ ~IsNone(perturbed.ceiling) => Val(perturbed.ceiling) >= 100

\* C14: when a run of either entry point returns, the caller's
\* base_conditions and metar_data, their weather lists included, hold what
\* they held before the first call, and every draw of every run is the
\* perturbation of those original base values.
C14_ArgumentsUnchanged ==
    mc # Idle =>
        /\ mc.in.base_conditions = mc.before.base_conditions
        /\ mc.in.metar_data = mc.before.metar_data
        /\ \A run \in AdvancedRuns :
              \A regime \in DOMAIN run.scenario_clusters :
                 \A j \in 1..Len(run.scenario_clusters[regime]) :
                    run.scenario_clusters[regime][j].conditions =
                       perturb_correlated_weather(
                          mc.before.base_conditions, regime,
                          mc.rng.draws[Nth(ScheduledIndices(regime, mc.before.num_draws), j) + 1])

C14_Witness ==
    /\ pc = "done"
    /\ AdvancedRuns # {}
    /\ mc.before.num_draws = MaxDraws
    /\ mc.before.include_extremes /\ mc.before.include_temporal
    /\ ~IsNone(mc.before.base_conditions.weather)
    /\ Val(mc.before.base_conditions.weather) # << >>
    /\ mc.runs[2].scenario_clusters["normal"] # << >>
    /\ mc.runs[2].scenario_clusters["normal"][1].conditions # mc.before.base_conditions

\* the arguments the driver ran with
DriverArguments ==
    IF mc.entry = "legacy" THEN LegacyArguments(mc.before) ELSE mc.before

\* the scores of the main-loop draws of the last run, in draw order
MainLoopScores ==
    [ k \in 1..DriverArguments.num_draws |->
        LET scenario_type == ScenarioType(k - 1, DriverArguments.num_draws)
        IN  ScoredCall(DrawCall(DriverArguments, scenario_type,
                                perturb_correlated_weather(DriverArguments.base_conditions,
                                                           scenario_type, mc.rng.draws[k])),
                       clock).rri ]

\* the scores of the four extreme scenarios of the last run
ExtremeScores ==
    LET calls == ExtremeCalls([DriverArguments EXCEPT !.include_extremes = TRUE],
                              generate_extreme_scenarios(DriverArguments.base_conditions,
                                                         mc.rng.extremes))
    IN  [ k \in 1..Len(calls) |-> ScoredCall(calls[k], clock).rri ]

\* C15: the sample population of a run is the N main-loop scores, followed
\* by the scores of the 4 extreme scenarios exactly when include_extremes is
\* set; temporal scores are never in it.  Percentiles, statistics and risk
\* distribution are taken over that population, on the legacy path too
\* (which always includes the extremes).
C15_SamplePopulation ==
    pc = "done" /\ mc # Idle =>
        LET run == mc.runs[2]
            population == CHOOSE p \in { MainLoopScores \o
                                           (IF DriverArguments.include_extremes
                                            THEN ExtremeScores ELSE << >>) } : TRUE
        IN  /\ Len(ExtremeScores) = 4
            /\ Len(population) = DriverArguments.num_draws
                                    + (IF DriverArguments.include_extremes THEN 4 ELSE 0)
            /\ mc.entry = "advanced" =>
                  /\ run.rri_samples = population
                  /\ run.percentiles = calculate_percentiles(population)
                  /\ run.statistics = calculate_comprehensive_statistics(population)
                  /\ run.risk_distribution = analyze_risk_distribution(population)
            /\ mc.entry = "legacy" =>
                  /\ DriverArguments.include_extremes
                  /\ run.rri_p05 = calculate_percentiles(population)["p05"]
                  /\ run.rri_p95 = calculate_percentiles(population)["p95"]

C15_Witness ==
    /\ pc = "done" /\ mc # Idle
    /\ mc.entry = "advanced"
    /\ mc.before.num_draws = MaxDraws
    /\ mc.before.include_extremes /\ mc.before.include_temporal
    /\ Len(mc.runs[2].rri_samples) = MaxDraws + 4
    /\ Len(Val(mc.runs[2].temporal_evolution)) = 6
    /\ \E k \in 1..6 : \A j \in 1..(MaxDraws + 4) :
          Val(mc.runs[2].temporal_evolution)[k].rri # mc.runs[2].rri_samples[j]

\* the parameters of the sensitivity analysis with their deltas
SensitivityDeltas == [ wind_dir |-> 10, wind_speed |-> 5, wind_gust |-> 5, temp_c |-> 3 ]

\* the basic RRI of the last run's base observation with one parameter
\* raised by delta (speeds and temperatures in tenths); "base" raises none
RriWithRaised(param, delta) ==
    LET base == mc.before.base_conditions
        conditions == CASE param = "wind_dir" -> [base EXCEPT !.wind_dir = @ + delta]
                        [] param = "wind_speed" -> [base EXCEPT !.wind_speed = @ + 10 * delta]
                        [] param = "wind_gust" ->
                             [base EXCEPT !.wind_gust = Some(Val(@) + 10 * delta)]
                        [] OTHER -> base
        metar_data == IF param = "temp_c"
                      THEN [mc.before.metar_data EXCEPT !.temp_c = Some(base.temp_c + 10 * delta)]
                      ELSE mc.before.metar_data
    IN  ScoredCall(BasicCall(mc.before, "sensitivity", conditions, metar_data, param), clock).rri

\* C16: sensitivity_analysis has an entry for exactly the parameters among
\* wind_dir, wind_speed, wind_gust and temp_c that base_conditions holds;
\* each entry is |RRI_perturbed - RRI_base| / delta with deltas 10, 5, 5
\* and 3, and is not negative (entries are in thirtieths of a point).
C16_Sensitivity ==
    pc = "done" /\ mc # Idle /\ mc.entry = "advanced" =>
        LET sensitivity == mc.runs[2].sensitivity_analysis
            base == mc.before.base_conditions
        IN  /\ DOMAIN sensitivity =
                  {"wind_dir", "wind_speed", "temp_c"}
                    \cup (IF IsNone(base.wind_gust) THEN {} ELSE {"wind_gust"})
            /\ \A param \in DOMAIN sensitivity :
                  \E perturbed_rri \in { RriWithRaised(param, SensitivityDeltas[param]) },
                     base_rri \in { RriWithRaised("base", 0) } :
                     /\ sensitivity[param] * SensitivityDeltas[param]
                           = 30 * Abs(perturbed_rri - base_rri)
                     /\ sensitivity[param] >= 0

C16_Witness ==
    /\ pc = "done" /\ mc # Idle /\ mc.entry = "advanced"
    /\ DOMAIN mc.runs[2].sensitivity_analysis = {"wind_dir", "wind_speed", "wind_gust", "temp_c"}
    /\ \E param \in {"wind_dir", "wind_speed", "wind_gust", "temp_c"} :
          /\ mc.runs[2].sensitivity_analysis[param] > 0
          /\ RriWithRaised(param, SensitivityDeltas[param]) < RriWithRaised("base", 0)

C16_WitnessNoGust ==
    /\ pc = "done" /\ mc # Idle /\ mc.entry = "advanced"
    /\ DOMAIN mc.runs[2].sensitivity_analysis = {"wind_dir", "wind_speed", "temp_c"}

\* the number of samples of a population whose mapping gives a label
WithCategory(samples, category) ==
    Cardinality({ k \in 1..Len(samples) : get_rri_category(samples[k]) = category })

WithStatus(samples, status) ==
    Cardinality({ k \in 1..Len(samples) : get_status_from_rri(samples[k]) = status })

\* C17: for a non-empty population of integer scores in 0..100 the
\* low/moderate/high/extreme fractions are the fractions of samples whose
\* category is LOW/MODERATE/HIGH/EXTREME, the no_go/caution/good
\* probabilities the fractions whose status is NO-GO/CAUTION/GOOD, and each
\* group sums to 1 (fractions are counts over the population size).
C17_DistributionMatchesRating ==
    distribution # Idle /\ ~IsNone(distribution.result) =>
        LET samples == distribution.samples
            d == Val(distribution.result)
        IN  /\ d.total = Len(samples)
            /\ d.low_risk = WithCategory(samples, "LOW")
            /\ d.moderate_risk = WithCategory(samples, "MODERATE")
            /\ d.high_risk = WithCategory(samples, "HIGH")
            /\ d.extreme_risk = WithCategory(samples, "EXTREME")
            /\ d.no_go_probability = WithStatus(samples, "NO-GO")
            /\ d.caution_probability = WithStatus(samples, "CAUTION")
            /\ d.good_probability = WithStatus(samples, "GOOD")
            /\ d.low_risk + d.moderate_risk + d.high_risk + d.extreme_risk = d.total
            /\ d.no_go_probability + d.caution_probability + d.good_probability = d.total

C17_Witness ==
    /\ distribution # Idle /\ ~IsNone(distribution.result)
    /\ distribution.samples = << 75, 76, 25 >>
    /\ Val(distribution.result).high_risk = 1
    /\ Val(distribution.result).no_go_probability = 1

\* the ceiling of every capped factor function, in points
FactorCeilings ==
    [ thermal_gradient |-> 20, atmospheric_stability |-> 30, runway_performance |-> 35,
      precipitation_intensity |-> 50, turbulence |-> 25, icing_conditions |-> 30,
      temperature_performance |-> 25, wind_shear |-> 25, notam_risks |-> 25, trend |-> 20 ]

\* the ceiling of the wind and density terms of the aggregators, in points
TermCeilings ==
    [ tailwind |-> 30, crosswind |-> 30, gust_differential |-> 20, gust_tailwind |-> 10,
      gust_crosswind |-> 10, density_altitude_diff |-> 30 ]

\* C18: every capped factor function returns a score between 0 and its
\* ceiling (thermal 20, stability 30, runway performance 35, precipitation
\* 50, turbulence 25, icing 30, temperature performance 25, wind shear 25,
\* NOTAM 25, trend 20), and the aggregators' tailwind, crosswind, gust
\* differential, gust tailwind, gust crosswind and density-altitude terms
\* stay within 30, 30, 20, 10, 10 and 30.
C18_FactorCeilings ==
    factors # Idle /\ ~IsNone(factors.scores) =>
        LET scores == Val(factors.scores)
        IN  /\ \A f \in DOMAIN FactorCeilings :
                  0 <= scores[f] /\ scores[f] <= Pts(FactorCeilings[f])
            /\ DOMAIN scores.terms \subseteq DOMAIN TermCeilings
            /\ \A t \in DOMAIN scores.terms :
                  0 <= ScoreOf(scores.terms, t)
                  /\ ScoreOf(scores.terms, t) <= Pts(TermCeilings[t])

C18_Witness ==
    /\ factors # Idle /\ ~IsNone(factors.scores)
    /\ calculate_icing_risk_unclamped(factors.in.temp10, FactorMetar(factors.in)) > Pts(30)
    /\ SumPrecipPoints(factors.in.weather, 1) > 50
    /\ \A f \in {"runway_performance", "precipitation_intensity", "turbulence",
                  "icing_conditions", "wind_shear", "notam_risks", "trend"} :
          Val(factors.scores)[f] = Pts(FactorCeilings[f])
    /\ DOMAIN Val(factors.scores).terms = {"tailwind", "gust_differential", "gust_tailwind",
                                           "density_altitude_diff"}
    /\ ScoreOf(Val(factors.scores).terms, "tailwind") = Pts(30)

\* a contributor map has the triggering entry of every override code in
\* the weather
HasOverrideEntries(weather, contributors) ==
    /\ AnyContains("TS", weather) => "thunderstorm" \in DOMAIN contributors
    /\ AnyContains("VA", weather) => "volcanic_ash" \in DOMAIN contributors
    /\ AnyContains("FC", weather) => "funnel_cloud" \in DOMAIN contributors

\* C19: whenever a thunderstorm, volcanic-ash or funnel-cloud code is
\* present, the contributor maps of calculate_rri and calculate_advanced_rri
\* hold the thunderstorm, volcanic_ash or funnel_cloud entry, whatever had
\* accumulated before and also when several such codes are present.
C19_OverrideRecorded ==
    /\ basic # None => HasOverrideEntries(args.metar_data.weather, Basic.contributors)
    /\ advanced # None => HasOverrideEntries(args.metar_data.weather, Advanced.contributors)

\* the additive severe-weather terms in the order they are evaluated
SevereOrder ==
    << "lightning", "low_ceiling", "low_visibility", "hail", "freezing_precipitation",
       "heavy_precipitation" >>

\* the running total when a severe-weather term is evaluated, in a run
\* without override codes: the entries recorded so far, later being the
\* entries recorded after the severe-weather terms
TotalBefore(contributors, k, later) ==
    SumScores(contributors,
              DOMAIN contributors \ (later \cup { SevereOrder[j] : j \in k..Len(SevereOrder) }))

SevereTermsGuarded(weather, contributors, later) ==
    /\ AnyContains("TS", weather) \/ AnyContains("VA", weather) =>
          \A k \in 1..Len(SevereOrder) : SevereOrder[k] \notin DOMAIN contributors
    /\ ~HasOverrideCode(weather) =>
          \A k \in 1..Len(SevereOrder) :
             SevereOrder[k] \in DOMAIN contributors =>
                TotalBefore(contributors, k, later) < Pts(100)

\* C20: low_ceiling, low_visibility, lightning, hail,
\* freezing_precipitation and heavy_precipitation are added and recorded
\* only when the running total is below 100 where they are evaluated; once
\* a thunderstorm or volcanic-ash override has set the total to 100 none of
\* them, lightning included, is added or recorded.
C20_SevereTermsGuarded ==
    /\ basic # None =>
          SevereTermsGuarded(args.metar_data.weather, Basic.contributors, {"notam_risks"})
    /\ advanced # None =>
          SevereTermsGuarded(args.metar_data.weather, Advanced.contributors,
                             {"risk_amplification"})

\* the points of the table entry whose code a condition string is, 0 for a
\* condition that is no code of the three tables
OwnTierPoints(condition) ==
    LET table == heavy_precip_types \o moderate_precip_types \o light_precip_types
        own == { i \in 1..Len(table) : table[i][1] = condition }
    IN  IF own = {} THEN 0 ELSE table[CHOOSE i \in own : TRUE][2]

RECURSIVE SumOwnTierPoints(_)
SumOwnTierPoints(weather) ==
    IF weather = << >> THEN 0
    ELSE OwnTierPoints(Head(weather)) + SumOwnTierPoints(Tail(weather))

\* every condition of a weather list is a code of the three tables
AllTableCodes(weather) ==
    \A i \in 1..Len(weather) : OwnTierPoints(weather[i]) > 0

\* C21: calculate_precipitation_intensity_risk scores each condition
\* string with the points of the table entry of its own tier (so -RA scores
\* 3, FZRA 25 and TSRA 18), and the sum over the conditions is capped at 50.
C21_PrecipitationTiers ==
    factors # Idle /\ ~IsNone(factors.scores) /\ AllTableCodes(factors.in.weather) =>
        Val(factors.scores).precipitation_intensity
            = Pts(Min(SumOwnTierPoints(factors.in.weather), 50))

\* the contributors the amplification pass of the advanced run read
BeforeAmplification ==
    [ k \in DOMAIN Advanced.contributors \ {"risk_amplification"} |-> Advanced.contributors[k] ]

\* the sum of the scores of the named entries that are present, in score units
Present(contributors, names) ==
    SumScores(contributors, names \cap DOMAIN contributors)

\* the bonuses that apply to a contributor map, in points
ActiveDomains(contributors) ==
    Cardinality({ d \in {"wind", "weather", "performance"} :
        CASE d = "wind" ->
               Present(contributors, {"tailwind", "crosswind", "gust_differential",
                                      "gust_tailwind", "gust_crosswind"}) > Pts(20)
          [] d = "weather" ->
               Present(contributors, {"thunderstorm", "lightning", "low_ceiling",
                                      "low_visibility", "icing_conditions"}) > Pts(20)
          [] d = "performance" ->
               Present(contributors, {"density_altitude_diff", "temperature_performance"})
                   > Pts(15) })

BonusSum(contributors) ==
    LET wind_domain == Present(contributors, {"tailwind", "crosswind", "gust_differential",
                                       "gust_tailwind", "gust_crosswind"})
    IN  (IF ActiveDomains(contributors) >= 2 THEN Min(15, 5 * ActiveDomains(contributors)) ELSE 0)
        + (IF {"icing_conditions", "low_ceiling"} \subseteq DOMAIN contributors THEN 10 ELSE 0)
        + (IF "thunderstorm" \in DOMAIN contributors /\ wind_domain > Pts(15) THEN 15 ELSE 0)
        + (IF Present(contributors, {"density_altitude_diff"}) > Pts(20) /\ wind_domain > Pts(15)
           THEN 10 ELSE 0)

\* C22 as amended: the amplification is the sum of every bonus that applies
\* (min(15, 5 * active domains) with at least 2 active domains, 10 for icing
\* with low ceiling, 15 for thunderstorm with wind score > 15, 10 for density
\* altitude score > 20 with wind score > 15), capped at 25.
C22_AmplificationCapped ==
    advanced # None =>
        ScoreOf(Advanced.contributors, "risk_amplification")
            = Pts(Min(25, BonusSum(BeforeAmplification)))

\* three bonuses apply and their sum is above the cap
C22_Witness ==
    /\ advanced # None
    /\ BonusSum(BeforeAmplification) > 25
    /\ "thunderstorm" \in DOMAIN Advanced.contributors
    /\ ActiveDomains(BeforeAmplification) = 3
    /\ ScoreOf(Advanced.contributors, "risk_amplification") = Pts(25)

\* C22: calculate_risk_amplification returns the full sum of every bonus
\* that applies.
C22_AmplificationFullSum ==
    advanced # None =>
        ScoreOf(Advanced.contributors, "risk_amplification") = Pts(BonusSum(BeforeAmplification))

\* a run below the cap with exactly one pairing bonus
C22_WitnessBelowCap ==
    /\ advanced # None
    /\ BonusSum(BeforeAmplification) = 10
    /\ ActiveDomains(BeforeAmplification) < 2

\* the entries that have no input to depend on: without a dewpoint, lat/lon
\* or a historical trend
MissingInputEntries(a) ==
    (IF IsNone(a.metar_data.dewpoint_c)
     THEN {"thermal_gradient", "atmospheric_stability"} ELSE {})
    \cup (IF IsNone(a.position) THEN {"time_of_day"} ELSE {})
    \cup (IF IsNone(a.historical_trend) THEN {"trend_analysis"} ELSE {})

\* the points scored for an unknown runway length
UnknownRunwayPoints(da_diff) ==
    IF da_diff > 2000 THEN 15 ELSE IF da_diff > 1000 THEN 10 ELSE IF da_diff > 500 THEN 5 ELSE 0

\* C23 as amended: with an optional input missing the aggregation completes
\* and there is no thermal_gradient or atmospheric_stability entry without
\* a dewpoint, no time_of_day entry without lat/lon and no trend_analysis
\* entry without a historical trend; without a runway length there is no
\* runway_performance entry when da_diff <= 500, and an entry of 5, 10 or
\* 15 points when da_diff is above 500, 1000 or 2000.
C23_MissingInputs ==
    advanced # None =>
        /\ Advanced.score \in 0..100
        /\ MissingInputEntries(args) \cap DOMAIN Advanced.contributors = {}
        /\ IsNone(args.runway_length) =>
              ScoreOf(Advanced.contributors, "runway_performance")
                  = Pts(UnknownRunwayPoints(args.da_diff))

\* every optional input missing, at an hour and sun position that score
\* when the inputs are there, and an unknown runway that scores
C23_Witness ==
    /\ advanced # None
    /\ MissingInputEntries(args) =
          {"thermal_gradient", "atmospheric_stability", "time_of_day", "trend_analysis"}
    /\ IsNone(args.runway_length)
    /\ calculate_time_risk_factor(clock) > 0
    /\ ScoreOf(Advanced.contributors, "runway_performance") = Pts(15)

\* C23: without a dewpoint, a runway length, lat/lon or a historical trend
\* the aggregation completes and there is no thermal_gradient,
\* atmospheric_stability, runway_performance, time_of_day or trend_analysis
\* entry respectively.
C23_MissingInputsContributeNothing ==
    advanced # None =>
        /\ Advanced.score \in 0..100
        /\ MissingInputEntries(args) \cap DOMAIN Advanced.contributors = {}
        /\ IsNone(args.runway_length) => "runway_performance" \notin DOMAIN Advanced.contributors

\* a NOTAM text that is an HTML or error page, is shorter than 50
\* characters or lacks the marker NOTAM
Malformed(notam_data) ==
    /\ ~IsNone(notam_data)
    /\ \/ ContainsAny({"<!DOCTYPE", "<HTML>", "INVALID QUERY", "ERROR", "<TITLE>"},
                      Upper(Val(notam_data)))
       \/ Len(Val(notam_data)) < 50
       \/ ~Contains("NOTAM", Upper(Val(notam_data)))

\* C24: with a malformed NOTAM text calculate_rri and
\* calculate_advanced_rri return the score and the contributors they return
\* with notam_data absent, for every runway length and weather.
C24_MalformedNotamIgnored ==
    Malformed(args.notam_data) =>
        /\ basic # None => Basic = calculate_rri([args EXCEPT !.notam_data = None], clock)
        /\ advanced # None =>
              Advanced = calculate_advanced_rri([args EXCEPT !.notam_data = None], clock)

\* the main-loop aggregator calls of the last run
DrawCallsMade ==
    IF mc = Idle THEN {}
    ELSE { mc.calls[k] : k \in { j \in 1..Len(mc.calls) : mc.calls[j].kind = "draw" } }

\* density_alt returns its sentinel: temperature outside -60..50 or result
\* outside -1000..20000
IsSentinel(field_elev_ft, temp10, altim100) ==
    \/ temp10 < -600 \/ temp10 > 500
    \/ density_alt_raw(field_elev_ft, temp10, altim100) < -1000
    \/ density_alt_raw(field_elev_ft, temp10, altim100) > 20000

\* a draw for which the driver calls density_alt and gets the sentinel
SentinelDraw(call) ==
    /\ ~IsNone(call.conditions.altim_in_hg)
    /\ Truthy(DriverArguments.airport_elevation)
    /\ IsSentinel(Val(DriverArguments.airport_elevation), call.conditions.temp_c,
                  Val(call.conditions.altim_in_hg))

\* C25: when density_alt returns the sentinel 0 for a perturbed draw, the
\* driver never passes the aggregator the differential 0 minus
\* airport_elevation.
C25_SentinelNotPropagated ==
    \A call \in DrawCallsMade :
        SentinelDraw(call) => call.a.da_diff # 0 - Val(DriverArguments.airport_elevation)

\* an argument that was supplied, whatever its value
Supplied(argument) == ~IsNone(argument)

\* C26: each draw recomputes the density-altitude differential exactly when
\* an altimeter setting and an airport elevation are both supplied (0 ft
\* included) and otherwise reuses the base da_diff, and is scored by the
\* advanced aggregator exactly when runway length and airport elevation are
\* both supplied (0 ft included).
C26_SuppliedElevation ==
    \A call \in DrawCallsMade :
        /\ call.advanced <=> ( Supplied(DriverArguments.runway_length)
                               /\ Supplied(DriverArguments.airport_elevation) )
        /\ call.a.da_diff =
              IF Supplied(call.conditions.altim_in_hg)
                 /\ Supplied(DriverArguments.airport_elevation)
              THEN density_alt(Val(DriverArguments.airport_elevation),
                               call.conditions.temp_c,
                               Val(call.conditions.altim_in_hg))
                   - Val(DriverArguments.airport_elevation)
              ELSE DriverArguments.da_diff

\* the extreme-scenario and temporal-hour aggregator calls of the last run
ScenarioCallsMade ==
    IF mc = Idle THEN {}
    ELSE { mc.calls[k] :
             k \in { j \in 1..Len(mc.calls) : mc.calls[j].kind \in {"extreme", "temporal"} } }

\* every code of the list base is a code of the list weather
Retains(weather, base) ==
    \A i \in 1..Len(base) : \E j \in 1..Len(weather) : weather[j] = base[i]

\* C27: every extreme scenario and every temporal-hour scenario is scored
\* with all weather codes of the base METAR record retained, and scores
\* exactly 100 when the base METAR carries a thunderstorm code.
C27_BaseWeatherRetained ==
    \A call \in ScenarioCallsMade :
        /\ Retains(call.a.metar_data.weather, DriverArguments.metar_data.weather)
        /\ AnyContains("TS", DriverArguments.metar_data.weather)
              => ScoredCall(call, clock).rri = 100

\* the scenarios in a list
Entries(list) == { list[k] : k \in 1..Len(list) }

\* C28: extreme_scenarios has at most 10 entries, each a sampled scenario
\* whose score is at least the 95th percentile of the population, and no
\* sampled scenario left out of it has a strictly higher score than a
\* scenario in it.
C28_TopScoringSelected ==
    selection # Idle /\ ~IsNone(selection.result) =>
        LET list == Val(selection.result)
        IN  /\ Len(list) <= 10
            /\ \A entry \in Entries(list) :
                  /\ entry \in Entries(selection.scenario_details)
                  /\ 100 * entry.rri >= Percentile(selection.rri_samples, 95)
            /\ \A left_out \in Entries(selection.scenario_details) \ Entries(list) :
                  \A entry \in Entries(list) : left_out.rri <= entry.rri

\* C29: two calls of calculate_rri, or of calculate_advanced_rri, with equal
\* arguments return equal score and contributors whatever the wall-clock
\* time of the calls.
C29_ClockIndependent ==
    \A now \in Clocks :
        /\ basic # None => Basic = calculate_rri(args, now)
        /\ advanced # None => Advanced = calculate_advanced_rri(args, now)

\* the weather states the last run scored: draws, extremes, temporal hours
WeatherCallsMade == DrawCallsMade \cup ScenarioCallsMade

\* C30: given a base observation whose gust is 0 or at least its wind speed,
\* every weather state the driver scores has a gust that is 0 or absent or
\* at least the steady wind speed of that state.
C30_GustNotBelowWind ==
    mc # Idle /\ ( GetGust(DriverArguments.base_conditions) = 0
                   \/ GetGust(DriverArguments.base_conditions)
                        >= DriverArguments.base_conditions.wind_speed ) =>
        \A call \in WeatherCallsMade :
            /\ GetGust(call.conditions) = 0 \/ GetGust(call.conditions) >= call.conditions.wind_speed
            /\ call.a.wind_gust = 0 \/ call.a.wind_gust >= call.a.wind_speed

====
